---- MODULE Spec2Model ----
(***************************************************************************)
(* A model of the S3 emulator super-shooting-star: the host router         *)
(* (lib/middleware/vhost.ts), the request authentication middleware        *)
(* (lib/middleware/authentication), the chunked-upload body rules and the  *)
(* bucket/object store.  Strings that the code matches character by        *)
(* character are sequences of one-character strings.                       *)
(***************************************************************************)
EXTENDS Integers, Sequences, FiniteSets, TLC

VARIABLES
    options,    \* the Options the server was built with
    vctx,       \* the request context seen by the host router
    actx,       \* the request context seen by the authentication middleware
    chunked,    \* the state of one STREAMING-AWS4-HMAC-SHA256-PAYLOAD upload
    store,      \* the store: bucket name -> (key -> content)
    last,       \* the last store operation, with the store as it was before
    registry,   \* AWSAccount.registry: access key id -> account
    accessKeys, \* account -> its accessKeys: access key id -> secret
    octx,       \* one request at the responseHeaderOverride middleware
    rule,       \* one evaluation of a website RoutingRule
    bus,        \* the 'event' emitter: the mutation done and what was published
    server,     \* the lifecycle of one server: built, configured, listening, closed
    objects,    \* one bucket's objects with their storage class
    listing,    \* one paged ListObjectsV2 walk over a bucket
    multipart,  \* one bucket's multipart uploads and the objects made of them
    canon,      \* one request whose canonical URI and query are computed
    merged,     \* one request whose x-amz-* query parameters are merged
    builder     \* the builder chains and the servers built from them

vars ==
    <<options, vctx, actx, chunked, store, last, registry, accessKeys,
      octx, rule, bus, server, objects, listing,
      multipart, canon, merged, builder>>

(***************************************************************************)
(* Bounds of the model.                                                    *)
(***************************************************************************)
MaxHostSegs == 4
MaxChunks == 4

(***************************************************************************)
(* Character strings.                                                      *)
(***************************************************************************)
Dot == <<".">>
Slash == <<"/">>
S3Literal == <<"s", "3">>
WebsiteLiteral == <<"-", "w", "e", "b", "s", "i", "t", "e">>
Localhost == <<"l", "o", "c", "a", "l", "h", "o", "s", "t">>

StartsWith(s, p) == Len(s) >= Len(p) /\ SubSeq(s, 1, Len(p)) = p
EndsWith(s, p) == Len(s) >= Len(p) /\ SubSeq(s, Len(s) - Len(p) + 1, Len(s)) = p
Drop(s, n) == SubSeq(s, n + 1, Len(s))

RECURSIVE SplitOn(_, _)
\* s.split(c): the pieces of s between the occurrences of the character c
SplitOn(s, c) ==
    IF \A i \in 1..Len(s) : s[i] # c
    THEN <<s>>
    ELSE LET i == CHOOSE j \in 1..Len(s) :
                    s[j] = c /\ \A k \in 1..(j - 1) : s[k] # c
         IN <<SubSeq(s, 1, i - 1)>> \o SplitOn(Drop(s, i), c)

(***************************************************************************)
(* defaultOptions, and the option values a server is built with.           *)
(***************************************************************************)
DefaultServiceEndpoint ==
    <<"a", "m", "a", "z", "o", "n", "a", "w", "s", ".", "c", "o", "m">>

OsHostname == <<"h", "o", "s", "t", "1">>

OptionSets ==
    [serviceEndpoint : {DefaultServiceEndpoint},
     useVhostBuckets : BOOLEAN,
     allowMismatchedSignatures : BOOLEAN]

(***************************************************************************)
(* lib/models/account: the registry after the module has been loaded, with *)
(* DUMMY_ACCOUNT.createKeyPair('S3RVER', 'S3RVER') done.                     *)
(***************************************************************************)
DummyAccount == "S3rver"
InitialRegistry == [k \in {"S3RVER"} |-> DummyAccount]
InitialAccessKeys == [a \in {DummyAccount} |-> [k \in {"S3RVER"} |-> "S3RVER"]]

(***************************************************************************)
(* Values of absent things, and the contexts before a request arrived.     *)
(***************************************************************************)
\* new Date(NaN), and a Date of a given instant
InvalidDate == [valid |-> FALSE, ms |-> 0]
DateOf(ms) == [valid |-> TRUE, ms |-> ms]
NoDate == [fmt |-> "none", t |-> 0]
Garbage == [fmt |-> "garbage", t |-> 0]
NoDetail == [StringToSign |-> <<>>, StringToSignBytes |-> <<>>]

IdleVctx ==
    [phase |-> "idle", hostname |-> <<>>, path0 |-> <<>>, path |-> <<>>,
     keys |-> {}, amz |-> FALSE, match |-> FALSE, vhost |-> FALSE, service |-> "none"]

IdleActx ==
    [phase |-> "idle", website |-> FALSE, method |-> "GET",
     authorization |-> "none", xAmzDate |-> NoDate, date |-> NoDate,
     qAlgorithm |-> FALSE, qComplete |-> FALSE, qDate |-> NoDate,
     qExpires |-> 0, qV2 |-> FALSE, accessKeyId |-> "none",
     signer |-> "none", signatureProvided |-> <<>>, serverTime |-> 0,
     error |-> "none", status |-> 0, account |-> "none",
     handlerRan |-> FALSE, steps |-> <<>>, detail |-> NoDetail]
IdleChunked ==
    [phase |-> "idle", hasLength |-> FALSE, declared |-> 0,
     chunkNumber |-> 0, lastChunkSize |-> 0, total |-> 0,
     received |-> <<>>, stored |-> FALSE, error |-> "none", status |-> 0,
     Chunk |-> 0, BadChunkSize |-> 0]
NoObjects == [k \in {} |-> "x"]
EmptyStore == [b \in {} |-> NoObjects]

QueryKey(prefix, rest) == [prefix |-> prefix, rest |-> rest]

NoKey == QueryKey("", "")

\* the response headers the middleware can touch; "none" is an unset header
HeaderNames ==
    {"Content-Type", "Content-Language", "Expires", "Cache-Control",
     "Content-Disposition", "Content-Encoding"}

NoHeaders == [h \in HeaderNames |-> "none"]

IdleOctx ==
    [phase |-> "idle", website |-> FALSE, method |-> "GET", query |-> <<>>,
     account |-> "none", found |-> FALSE,
     error |-> "none", status |-> 0,
     ArgumentName |-> NoKey, ArgumentValue |-> "none",
     handlerRan |-> FALSE, overridden |-> {}, headers |-> NoHeaders]

Undefined == <<"undefined">>

NoCondition == [KeyPrefixEquals |-> Undefined, HttpErrorCodeReturnedEquals |-> 0]

IdleRule ==
    [phase |-> "idle",
     config |-> [hasCondition |-> FALSE, Condition |-> NoCondition,
                 hasRedirect |-> TRUE,
                 Redirect |-> [Protocol |-> Undefined, HostName |-> Undefined,
                               ReplaceKeyPrefixWith |-> Undefined,
                               ReplaceKeyWith |-> Undefined,
                               HttpRedirectCode |-> 0]],
     key |-> <<>>, status |-> 0, statusCode |-> 0,
     should |-> FALSE, location |-> <<>>, redirectKey |-> <<>>]

IdleBus == [log |-> <<>>]
IdleServer ==
    [phase |-> "idle", useResetOnClose |-> "unset", buckets |-> <<>>,
     pc |-> <<>>, failed |-> {}, puts |-> <<>>, listened |-> FALSE,
     configs |-> [b \in {"bucket-a", "bucket-b"} |->
                    [t \in {"cors", "website"} |-> "none"]],
     storeBeforeClose |-> EmptyStore,
     configsBeforeClose |-> [b \in {"bucket-a", "bucket-b"} |->
                               [t \in {"cors", "website"} |-> "none"]]]
Absent == "(absent)"

NoStoredObjects == [k \in {} |-> [error |-> "none"]]

IdleObjects ==
    [stored |-> NoStoredObjects,
     last |-> [op |-> "none", key |-> "", content |-> "", storageClass |-> Absent,
               error |-> "none", status |-> 0, before |-> NoStoredObjects,
               StorageClass |-> Absent, Body |-> ""]]

IdleListing ==
    [phase |-> "idle", keys |-> {}, prefix |-> <<>>, delimiter |-> <<>>,
     maxKeys |-> 0, pages |-> <<>>]

NoUploads == [u \in {} |-> [n \in {} |-> "none"]]

IdleMultipart ==
    [uploads |-> NoUploads, nextUploadId |-> 1, object |-> <<>>,
     last |-> [op |-> "none", uploadId |-> 0, parts |-> <<>>, error |-> "none",
               uploadsBefore |-> NoUploads, objectBefore |-> <<>>]]

IdleCanon ==
    [phase |-> "idle", raw |-> <<>>, authorization |-> FALSE,
     mountPath |-> <<>>, bucket |-> <<>>, key |-> <<>>, vhost |-> FALSE,
     computed |-> FALSE, uri |-> <<>>, querystring |-> <<>>]

IdleMerged ==
    [phase |-> "idle", website |-> FALSE, method |-> "GET",
     authorization |-> "none", signer |-> "none", query |-> <<>>,
     headers0 |-> [n \in {} |-> "none"], headers |-> [n \in {} |-> "none"],
     error |-> "none", handlerRan |-> FALSE, seen |-> [n \in {} |-> "none"],
     stored |-> FALSE, metadata |-> [n \in {} |-> "none"]]

BuilderOptions == {"useResetOnClose", "store", "emitter", "buckets", "port"}

\* defaultOptions; store and emitter are not among them
DefaultProps ==
    [o \in BuilderOptions |->
        CASE o = "useResetOnClose" -> "false"
          [] o = "buckets" -> "[]"
          [] o = "port" -> "0"
          [] OTHER -> "undefined"]

NotSet == [o \in BuilderOptions |-> "(not set)"]

\* DefaultBuilder after new Builder().with(defaultOptions), and no server
IdleBuilder ==
    [props |-> DefaultProps, chain |-> NotSet, built |-> FALSE,
     serverOptions |-> DefaultProps, serverChain |-> NotSet,
     closed |-> FALSE, reset |-> FALSE]

InitLast ==
    /\ multipart = IdleMultipart
    /\ canon = IdleCanon
    /\ merged = IdleMerged
    /\ builder = IdleBuilder

\* the components a specification leaves alone
InitLater ==
    /\ octx = IdleOctx
    /\ rule = IdleRule
    /\ bus = IdleBus
    /\ server = IdleServer
    /\ objects = IdleObjects
    /\ listing = IdleListing
    /\ InitLast

IdleLast ==
    [op |-> "none", bucket |-> "none", key |-> "none", result |-> "none",
     status |-> 0, before |-> EmptyStore]


(***************************************************************************)
(* lib/middleware/vhost.ts                                                 *)
(***************************************************************************)

\* r matches ([-.].+)?\.<serviceEndpoint>$ : an optional region, then the
\* escaped service endpoint
TailMatch(r, ep) ==
    \/ r = Dot \o ep
    \/ /\ Len(r) >= 2 + Len(Dot \o ep)
       /\ r[1] \in {"-", "."}
       /\ EndsWith(r, Dot \o ep)

\* r matches s3-website([-.].+)?\.<serviceEndpoint>$ : the alternative of
\* the optional (-website) group that the regular expression tries first
WebsiteMatch(r, ep) ==
    /\ StartsWith(r, S3Literal \o WebsiteLiteral)
    /\ TailMatch(Drop(r, Len(S3Literal \o WebsiteLiteral)), ep)

\* r matches s3(-website)?([-.].+)?\.<serviceEndpoint>$
CoreMatch(r, ep) ==
    \/ WebsiteMatch(r, ep)
    \/ StartsWith(r, S3Literal) /\ TailMatch(Drop(r, Len(S3Literal)), ep)

\* the lengths of the prefixes (.+) that, followed by a dot, leave a rest
\* matching the core of the pattern
BucketEnds(h, ep) ==
    {i \in 1..(Len(h) - 1) : h[i + 1] = "." /\ CoreMatch(Drop(h, i + 1), ep)}

Max(S) == CHOOSE x \in S : \A y \in S : y <= x

\* pattern.exec(ctx.hostname) || [] : the greedy bucket group takes the
\* longest prefix that lets the rest match; bucket is <<>> when the group
\* did not take part
PatternExec(h, ep) ==
    IF BucketEnds(h, ep) # {}
    THEN LET i == Max(BucketEnds(h, ep))
         IN [match |-> TRUE,
             bucket |-> SubSeq(h, 1, i),
             website |-> WebsiteMatch(Drop(h, i + 1), ep)]
    ELSE IF CoreMatch(h, ep)
    THEN [match |-> TRUE, bucket |-> <<>>, website |-> WebsiteMatch(h, ep)]
    ELSE [match |-> FALSE, bucket |-> <<>>, website |-> FALSE]

Digits == {"0", "1", "2", "3", "4", "5", "6", "7", "8", "9"}

\* one octet of node's IPv4 pattern:
\* [0-9] | [1-9][0-9] | 1[0-9][0-9] | 2[0-4][0-9] | 25[0-5]
IsOctet(p) ==
    /\ Len(p) \in 1..3
    /\ \A i \in 1..Len(p) : p[i] \in Digits
    /\ Len(p) = 2 => p[1] # "0"
    /\ Len(p) = 3 =>
         \/ p[1] = "1"
         \/ p[1] = "2" /\ p[2] \in {"0", "1", "2", "3", "4"}
         \/ p[1] = "2" /\ p[2] = "5" /\ p[3] \in {"0", "1", "2", "3", "4", "5"}

\* net.isIP(ctx.hostname) for a hostname without colons (koa's ctx.hostname
\* cuts the Host header at the first colon)
IsIP(h) ==
    LET parts == SplitOn(h, ".")
    IN Len(parts) = 4 /\ \A i \in 1..4 : IsOctet(parts[i])

UpperCase ==
    <<"A", "B", "C", "D", "E", "F", "G", "H", "I", "J", "K", "L", "M",
      "N", "O", "P", "Q", "R", "S", "T", "U", "V", "W", "X", "Y", "Z">>

LowerCase ==
    <<"a", "b", "c", "d", "e", "f", "g", "h", "i", "j", "k", "l", "m",
      "n", "o", "p", "q", "r", "s", "t", "u", "v", "w", "x", "y", "z">>

DigitChars == <<"0", "1", "2", "3", "4", "5", "6", "7", "8", "9">>

PositionIn(s, ch) == CHOOSE i \in 1..Len(s) : s[i] = ch

Range(s) == {s[i] : i \in 1..Len(s)}

\* String.prototype.toLowerCase, letter by letter
LowerChar(ch) ==
    IF ch \in Range(UpperCase) THEN LowerCase[PositionIn(UpperCase, ch)] ELSE ch

ToLowerCase(s) == [i \in DOMAIN s |-> LowerChar(s[i])]

AmzPrefix == <<"x", "-", "a", "m", "z", "-">>

\* key.toLowerCase().startsWith('x-amz-')
IsAmzKey(key) == StartsWith(ToLowerCase(key), AmzPrefix)

\* some header name or query parameter name of the request is x-amz-*
HasAmzKey(keys) == \E key \in keys : IsAmzKey(key)

\* the condition of a bug that forgets the localhost exemption
IsVhostBucketHostNoLocalhost(h, vhostBuckets) ==
    /\ vhostBuckets
    /\ ~IsIP(h)
    /\ h # OsHostname

\* the hostname is taken as the bucket of a vhost-style request
IsVhostBucketHost(h, vhostBuckets) ==
    /\ vhostBuckets
    /\ ~IsIP(h)
    /\ h \notin {Localhost, OsHostname}

\* a bug that flags every request as virtual-host style
BooleanAlways(bucket) == TRUE

\* Boolean(bucket): the bucket group of the pattern took part in the match
BooleanOf(bucket) == bucket # <<>>

\* ctx.state and ctx.path after vhost(ctx, next); service "none" is
\* ctx.state.service left undefined
VhostRoute(c, opts) ==
    LET m == PatternExec(c.hostname, opts.serviceEndpoint)
    IN IF m.match
       THEN [c EXCEPT !.phase = "routed",
                      !.match = TRUE,
                      !.vhost = BooleanOf(m.bucket),
                      !.service = IF m.website THEN "s3-website" ELSE "s3",
                      !.path = IF m.bucket # <<>>
                               THEN Slash \o m.bucket \o c.path
                               ELSE c.path]
       ELSE LET byHost == IsVhostBucketHost(c.hostname, opts.useVhostBuckets)
            IN [c EXCEPT !.phase = "routed",
                         !.match = FALSE,
                         !.vhost = byHost,
                         !.service = IF HasAmzKey(c.keys) THEN "s3"
                                     ELSE "none",
                         !.path = IF byHost
                                  THEN Slash \o c.hostname \o c.path
                                  ELSE c.path]

(***************************************************************************)
(* Host names the router is run on: concatenations of at most MaxHostSegs  *)
(* segments, and a few whole names.                                        *)
(***************************************************************************)
HostSegs ==
    {<<"b">>, <<"b", ".">>, S3Literal, WebsiteLiteral, <<"-", "b">>,
     <<".", "b">>, Dot \o DefaultServiceEndpoint}

RECURSIVE HostsOf(_)
HostsOf(n) ==
    IF n = 0 THEN {<<>>}
    ELSE LET shorter == HostsOf(n - 1)
         IN shorter \cup {h \o s : h \in shorter, s \in HostSegs}

SpecialHosts ==
    {Localhost, OsHostname,
     <<"1", "2", "7", ".", "0", ".", "0", ".", "1">>,
     <<"2", "5", "6", ".", "0", ".", "0", ".", "1">>,
     <<"1", ".", "1", ".", "1">>}

Hosts == (HostsOf(MaxHostSegs) \ {<<>>}) \cup SpecialHosts

Paths == {Slash, <<"/", "k">>}


\* the header and query parameter names of a request: none that matters,
\* accept, x-amz-date (header), X-Amz-Date (query), x-amx-date
RequestKeys ==
    {{},
     {<<"a", "c", "c", "e", "p", "t">>},
     {<<"x", "-", "a", "m", "z", "-", "d">>},
     {<<"X", "-", "A", "m", "z", "-", "D">>},
     {<<"x", "-", "a", "m", "x", "-", "d">>}}

\* a request arrives at the router: its hostname, its path, and the names
\* of its headers and query parameters
VhostReceive ==
    /\ vctx.phase = "idle"
    /\ \E h \in Hosts, p \in Paths, ks \in RequestKeys :
         vctx' = [IdleVctx EXCEPT !.phase = "received", !.hostname = h,
                                  !.path0 = p, !.path = p, !.keys = ks,
                                  !.amz = HasAmzKey(ks)]
    /\ UNCHANGED <<options, actx, chunked, store, last, registry, accessKeys,
                 octx, rule, bus, server, objects, listing,
      multipart, canon, merged, builder>>

\* vhost(ctx, next)
Vhost ==
    /\ vctx.phase = "received"
    /\ vctx' = VhostRoute(vctx, options)
    /\ UNCHANGED <<options, actx, chunked, store, last, registry, accessKeys,
                 octx, rule, bus, server, objects, listing,
      multipart, canon, merged, builder>>

InitVhost ==
    /\ options \in {o \in OptionSets : ~o.allowMismatchedSignatures}
    /\ vctx = IdleVctx
    /\ actx = IdleActx
    /\ chunked = IdleChunked
    /\ store = EmptyStore
    /\ last = IdleLast
    /\ registry = InitialRegistry
    /\ accessKeys = InitialAccessKeys
    /\ InitLater

NextVhost == VhostReceive \/ Vhost

SpecVhost == InitVhost /\ [][NextVhost]_vars

(***************************************************************************)
(* lib/utils: parseDate.  A date string is a record: fmt "none" is an      *)
(* absent header (undefined), fmt "http" is Date.prototype.toUTCString(),  *)
(* which new Date() parses; fmt "iso8601" is AWS's yyyyMMddTHHmmssZ, which *)
(* new Date() does not parse and parseISO8601String does; fmt "garbage" is *)
(* parsed by neither.  t is the instant in milliseconds.                   *)
(***************************************************************************)

\* new Date(dateString)
NewDate(dateString) ==
    IF dateString.fmt = "http" THEN DateOf(dateString.t) ELSE InvalidDate

\* parseISO8601String(dateString)
ParseISO8601String(dateString) ==
    IF dateString.fmt = "none" THEN InvalidDate
    ELSE IF dateString.fmt = "iso8601" THEN DateOf(dateString.t)
    ELSE InvalidDate

\* parseDate(dateString)
ParseDate(dateString) ==
    IF ~NewDate(dateString).valid
    THEN ParseISO8601String(dateString)
    ELSE NewDate(dateString)

(***************************************************************************)
(* lib/models/error: the HTTP status of an S3Error code.                   *)
(***************************************************************************)
StatusOf(code) ==
    CASE code \in {"InvalidArgument", "InvalidRequest", "InvalidStorageClass",
                   "AuthorizationHeaderMalformed",
                   "AuthorizationQueryParametersError", "IncompleteBody"} -> 400
      [] code \in {"SignatureDoesNotMatch", "AccessDenied",
                   "RequestTimeTooSkewed", "InvalidAccessKeyId",
                   "InvalidChunkSizeError"} -> 403
      [] code = "BucketNotEmpty" -> 409
      [] code = "MissingContentLength" -> 411
      [] code \in {"NoSuchBucket", "NoSuchKey"} -> 404
      [] OTHER -> 500

(***************************************************************************)
(* lib/signature/v4                                                        *)
(***************************************************************************)
MinExpires == 1
MaxExpires == 604800

\* v4.getStringToSign(canonicalRequest, request)
GetStringToSign(c, request) ==
    <<"AWS4-HMAC-SHA256", request.time, c.method>>

\* v4.getSigningKey(secretKey, date, region, service)
GetSigningKey(secret) == <<"AWS4", secret, "aws4_request">>

\* createHmac(algorithm, key).update(data).digest(encoding)
Hmac(key, data) == <<"hmac", key, data>>

\* v4.parseHeader(headers): the components of the Authorization header
V4ParseHeader(c) ==
    IF c.authorization = "v4malformed"
    THEN [error |-> "AuthorizationHeaderMalformed"]
    ELSE [error |-> "none",
          accessKeyId |-> c.accessKeyId,
          signatureProvided |-> c.signatureProvided]

\* the presigned request has expired, or its X-Amz-Expires is out of range
\* a bug that only compares the expiry instant with the server's clock
PresignExpiredNoRange(expires, requestTime, serverTime) ==
    requestTime + expires * 1000 < serverTime

PresignExpired(expires, requestTime, serverTime) ==
    \/ expires < MinExpires
    \/ expires > MaxExpires
    \/ requestTime + expires * 1000 < serverTime

\* v4.parseQuery(ctx.query)
V4ParseQuery(c, serverTime) ==
    IF ~c.qComplete
    THEN [error |-> "AuthorizationQueryParametersError"]
    ELSE IF PresignExpired(c.qExpires, ParseISO8601String(c.qDate).ms, serverTime)
    THEN [error |-> "AccessDenied"]
    ELSE [error |-> "none",
          version |-> 4,
          time |-> c.qDate,
          accessKeyId |-> c.accessKeyId,
          signatureProvided |-> c.signatureProvided]

(***************************************************************************)
(* lib/middleware/authentication                                           *)
(***************************************************************************)
SkewLimitMs == 900000

Abs(x) == IF x < 0 THEN -x ELSE x

\* a bug that also rejects a difference of exactly 15 minutes
TooSkewedInclusive(serverTime, requestTime) ==
    Abs(serverTime - requestTime) >= SkewLimitMs

\* Math.abs(serverTime.getTime() - requestTime.getTime()) > 900000
TooSkewed(serverTime, requestTime) ==
    Abs(serverTime - requestTime) > SkewLimitMs

\* ctx.headers after Object.assign(ctx.headers, amzQueryHeaders): an
\* x-amz-date given in the query replaces the header
MergedAmzDate(c) == IF c.qDate # NoDate THEN c.qDate ELSE c.xAmzDate

\* a bug that checks the request time before the Authorization type
ParseHeaderTimeFirst(c, serverTime) ==
    LET time == IF MergedAmzDate(c) # NoDate THEN MergedAmzDate(c) ELSE c.date
    IN IF ~ParseDate(time).valid
       THEN [error |-> "AccessDenied"]
       ELSE IF TooSkewed(serverTime, ParseDate(time).ms)
       THEN [error |-> "RequestTimeTooSkewed"]
       ELSE IF c.authorization \notin {"v4", "v4malformed"}
       THEN [error |-> "InvalidArgument"]
       ELSE IF V4ParseHeader(c).error # "none"
       THEN [error |-> V4ParseHeader(c).error]
       ELSE [error |-> "none",
             version |-> 4,
             time |-> time,
             accessKeyId |-> V4ParseHeader(c).accessKeyId,
             signatureProvided |-> V4ParseHeader(c).signatureProvided]

\* parseHeader(headers)
ParseHeader(c, serverTime) ==
    LET time == IF MergedAmzDate(c) # NoDate THEN MergedAmzDate(c) ELSE c.date
    IN IF c.authorization \notin {"v4", "v4malformed"}
       THEN [error |-> "InvalidArgument"]
       ELSE IF V4ParseHeader(c).error # "none"
       THEN [error |-> V4ParseHeader(c).error]
       ELSE IF ~ParseDate(time).valid
       THEN [error |-> "AccessDenied"]
       ELSE IF TooSkewed(serverTime, ParseDate(time).ms)
       THEN [error |-> "RequestTimeTooSkewed"]
       ELSE [error |-> "none",
             version |-> 4,
             time |-> time,
             accessKeyId |-> V4ParseHeader(c).accessKeyId,
             signatureProvided |-> V4ParseHeader(c).signatureProvided]

\* a bug that takes the Authorization header as the only mechanism
MechanismsHeaderOnly(c) ==
    [header |-> c.authorization # "none", queryV4 |-> FALSE]

\* const mechanisms = { header, queryV4 }
Mechanisms(c) ==
    [header |-> c.authorization # "none", queryV4 |-> c.qAlgorithm]

\* a bug that takes the Signature query parameter of Signature V2 for a
\* mechanism of its own
MechanismCountWithV2(c) ==
    (IF Mechanisms(c).header THEN 1 ELSE 0)
    + (IF Mechanisms(c).queryV4 THEN 1 ELSE 0)
    + (IF c.qV2 THEN 1 ELSE 0)

\* Object.values(mechanisms).filter(Boolean).length
MechanismCount(c) ==
    (IF Mechanisms(c).header THEN 1 ELSE 0)
    + (IF Mechanisms(c).queryV4 THEN 1 ELSE 0)

\* a bug that accepts every provided signature
SignatureMatchesAlways(provided, calculated) == TRUE

\* request.signatureProvided === calculatedSignature
SignatureMatches(provided, calculated) == provided = calculated

\* a bug that turns the allowMismatchedSignatures escape around
MismatchAllowedInverted(opts) == ~opts.allowMismatchedSignatures

\* if (ctx.allowMismatchedSignatures)
MismatchAllowed(opts) == opts.allowMismatchedSignatures

\* the middleware returns next(): the route handler runs
CallNext(c, steps, account) ==
    [c EXCEPT !.phase = "done", !.error = "none", !.status = 200,
              !.account = account, !.handlerRan = TRUE,
              !.steps = steps \o <<"next">>]

\* the middleware throws an S3Error: the route handler does not run
Throw(c, steps, code, detail) ==
    [c EXCEPT !.phase = "done", !.error = code, !.status = StatusOf(code),
              !.account = "none", !.handlerRan = FALSE,
              !.steps = steps, !.detail = detail]

\* a bug that falls back to the dummy account for a key it does not know
RegistryGetOrDummy(reg, accessKeyId) ==
    IF accessKeyId \in DOMAIN reg THEN reg[accessKeyId] ELSE DummyAccount

\* AWSAccount.registry.get(request.accessKeyId); "none" is undefined
RegistryGet(reg, accessKeyId) ==
    IF accessKeyId \in DOMAIN reg THEN reg[accessKeyId] ELSE "none"

\* account.accessKeys.get(request.accessKeyId); "undefined" when the account
\* does not hold the key
AccessKeysGet(keys, account, accessKeyId) ==
    IF accessKeyId \in DOMAIN keys[account]
    THEN keys[account][accessKeyId]
    ELSE "undefined"

\* authentication(ctx, next); steps lists what the middleware did, in order
Authentication(c, opts, reg, keys) ==
    IF c.website THEN CallNext(c, <<>>, "none")
    ELSE IF c.method = "OPTIONS" THEN CallNext(c, <<>>, "none")
    ELSE IF MechanismCount(c) = 0 THEN CallNext(c, <<"count">>, "none")
    ELSE IF MechanismCount(c) # 1
    THEN Throw(c, <<"count">>, "InvalidArgument", NoDetail)
    ELSE
      LET request == IF Mechanisms(c).header
                     THEN ParseHeader(c, c.serverTime)
                     ELSE V4ParseQuery(c, c.serverTime)
      IN IF request.error # "none"
         THEN Throw(c, <<"count", "parse">>, request.error, NoDetail)
         ELSE IF RegistryGet(reg, request.accessKeyId) = "none"
         THEN Throw(c, <<"count", "parse", "lookup">>,
                    "InvalidAccessKeyId", NoDetail)
         ELSE
           LET account == RegistryGet(reg, request.accessKeyId)
               stringToSign == GetStringToSign(c, request)
               signingKey ==
                   GetSigningKey(AccessKeysGet(keys, account,
                                               request.accessKeyId))
               calculatedSignature == Hmac(signingKey, stringToSign)
               steps == <<"count", "parse", "lookup", "compare">>
           IN IF SignatureMatches(request.signatureProvided,
                                  calculatedSignature)
              THEN CallNext(c, steps, account)
              ELSE IF MismatchAllowed(opts)
              THEN CallNext(c, steps, account)
              ELSE Throw(c, steps, "SignatureDoesNotMatch",
                         [StringToSign |-> stringToSign,
                          StringToSignBytes |-> <<"hex", stringToSign>>])

(***************************************************************************)
(* The requests the authentication middleware is run on.                   *)
(*   authorization: "none", "v4" (AWS4-HMAC-SHA256 with its three          *)
(*     components), "v4malformed" (AWS4-HMAC-SHA256 with components         *)
(*     missing), "v2" (AWS <key>:<signature>);                              *)
(*   qAlgorithm: X-Amz-Algorithm is in the query; qComplete: so are the     *)
(*     other presign parameters; qV2: the Signature, AWSAccessKeyId and     *)
(*     Expires parameters of Signature V2 are in the query;                 *)
(*   signer: the secret the client signed with ("stale": the right secret  *)
(*     over another request, "dummy": no signature at all).                 *)
(***************************************************************************)
ServerTimes == {1000000000, 1000000001}

HeaderDates ==
    {NoDate, Garbage}
    \cup {[fmt |-> "iso8601", t |-> t] :
            t \in {999099000, 999100000, 1000000000, 1000900000, 1000901000}}

DateHeaders ==
    {NoDate, [fmt |-> "http", t |-> 1000000000],
     [fmt |-> "http", t |-> 1000901000]}

PresignDates ==
    {[fmt |-> "iso8601", t |-> t] : t \in {395200000, 999980000, 1000000000}}

PresignExpires == {-10, 0, 1, 20, 604800, 604801}

AccessKeyIds == {"S3RVER", "UNKNOWN"}
Signers == {"S3RVER", "WRONG", "stale", "dummy"}

\* the time the client put into the string it signed
SignedTime(c) ==
    IF c.authorization = "none" THEN c.qDate
    ELSE IF MergedAmzDate(c) # NoDate THEN MergedAmzDate(c) ELSE c.date

\* the signature a client sends
SignatureBy(signer, c) ==
    CASE signer = "dummy" -> <<"dummysig">>
      [] signer = "stale" ->
            Hmac(GetSigningKey("S3RVER"),
                 GetStringToSign([c EXCEPT !.method = "DELETE"],
                                 [time |-> SignedTime(c)]))
      [] OTHER ->
            Hmac(GetSigningKey(signer),
                 GetStringToSign(c, [time |-> SignedTime(c)]))

HeaderRequests ==
    {[IdleActx EXCEPT !.authorization = a, !.xAmzDate = x, !.date = d,
                      !.qDate = q, !.qAlgorithm = g, !.qComplete = g,
                      !.qExpires = 20, !.qV2 = v] :
        a \in {"v4", "v4malformed", "v2"}, x \in HeaderDates,
        d \in DateHeaders, q \in {NoDate, [fmt |-> "iso8601", t |-> 1000000000]},
        g \in BOOLEAN, v \in BOOLEAN}

PresignedRequests ==
    {[IdleActx EXCEPT !.qAlgorithm = TRUE, !.qComplete = g, !.qDate = q,
                      !.qExpires = e, !.qV2 = v] :
        g \in BOOLEAN, q \in PresignDates, e \in PresignExpires, v \in BOOLEAN}

UnsignedRequests == {[IdleActx EXCEPT !.qV2 = v] : v \in BOOLEAN}

\* a request arrives at the middleware, at some server time
AuthReceive ==
    /\ actx.phase = "idle"
    /\ \E r \in HeaderRequests \cup PresignedRequests \cup UnsignedRequests,
          w \in BOOLEAN, m \in {"GET", "OPTIONS"}, now \in ServerTimes,
          k \in AccessKeyIds, sg \in Signers :
         /\ (r \in UnsignedRequests) => (k = "S3RVER" /\ sg = "dummy")
         /\ LET c == [r EXCEPT !.phase = "received", !.website = w,
                               !.method = m, !.serverTime = now,
                               !.accessKeyId = k, !.signer = sg]
            IN actx' = [c EXCEPT !.signatureProvided = SignatureBy(sg, c)]
    /\ UNCHANGED <<options, vctx, chunked, store, last, registry, accessKeys,
                 octx, rule, bus, server, objects, listing,
      multipart, canon, merged, builder>>

\* authentication(ctx, next), and the route handler when next() is called
Authenticate ==
    /\ actx.phase = "received"
    /\ actx' = Authentication(actx, options, registry, accessKeys)
    /\ UNCHANGED <<options, vctx, chunked, store, last, registry, accessKeys,
                 octx, rule, bus, server, objects, listing,
      multipart, canon, merged, builder>>

InitAuth ==
    /\ options \in {o \in OptionSets : o.useVhostBuckets}
    /\ vctx = IdleVctx
    /\ actx = IdleActx
    /\ chunked = IdleChunked
    /\ store = EmptyStore
    /\ last = IdleLast
    /\ registry = InitialRegistry
    /\ accessKeys = InitialAccessKeys
    /\ InitLater

NextAuth == AuthReceive \/ Authenticate

SpecAuth == InitAuth /\ [][NextAuth]_vars

(***************************************************************************)
(* The body of a STREAMING-AWS4-HMAC-SHA256-PAYLOAD upload, consumed chunk *)
(* by chunk.  chunkNumber counts the chunk headers read, lastChunkSize is  *)
(* the size of the chunk before the one being read, total the bytes of     *)
(* payload so far; received is the history of the chunk sizes.             *)
(***************************************************************************)
MinChunkSize == 8192

ChunkSizes == {0, 5, 6, 8192}
DeclaredLengths == {0, 5, 6, 11, 8192, 8197, 8203, 16389}

ChunkedFail(u, code) ==
    [u EXCEPT !.phase = "done", !.error = code, !.status = StatusOf(code),
              !.stored = FALSE]

\* a bug that reports the undersized chunk's own ordinal
ChunkTooSmallOwnOrdinal(u, size) ==
    [ChunkedFail(u, "InvalidChunkSizeError") EXCEPT
        !.Chunk = u.chunkNumber, !.BadChunkSize = u.lastChunkSize]

\* a chunk with payload follows a chunk of less than 8192 bytes
ChunkTooSmall(u, size) ==
    [ChunkedFail(u, "InvalidChunkSizeError") EXCEPT
        !.Chunk = u.chunkNumber + 1, !.BadChunkSize = u.lastChunkSize]

\* the next chunk header, of the given size, and its payload are read
ChunkRead(u, size) ==
    LET v == [u EXCEPT !.received = Append(u.received, size)]
    IN IF size = 0
       THEN IF v.total # v.declared
            THEN ChunkedFail([v EXCEPT !.chunkNumber = u.chunkNumber + 1],
                             "IncompleteBody")
            ELSE [v EXCEPT !.phase = "done", !.stored = TRUE,
                           !.chunkNumber = u.chunkNumber + 1, !.status = 200]
       ELSE IF u.chunkNumber >= 1 /\ u.lastChunkSize < MinChunkSize
       THEN ChunkTooSmall(v, size)
       ELSE [v EXCEPT !.chunkNumber = u.chunkNumber + 1,
                      !.lastChunkSize = size,
                      !.total = u.total + size]

\* the upload request arrives, with or without X-Amz-Decoded-Content-Length
ChunkedStart ==
    /\ chunked.phase = "idle"
    /\ \E h \in BOOLEAN, d \in DeclaredLengths :
         /\ ~h => d = 0
         /\ chunked' =
              IF h
              THEN [IdleChunked EXCEPT !.phase = "reading", !.hasLength = TRUE,
                                       !.declared = d]
              ELSE ChunkedFail(IdleChunked, "MissingContentLength")
    /\ UNCHANGED <<options, vctx, actx, store, last, registry, accessKeys,
                 octx, rule, bus, server, objects, listing,
      multipart, canon, merged, builder>>

\* the client sends one more chunk
ChunkedData ==
    /\ chunked.phase = "reading"
    /\ Len(chunked.received) < MaxChunks
    /\ \E size \in ChunkSizes : chunked' = ChunkRead(chunked, size)
    /\ UNCHANGED <<options, vctx, actx, store, last, registry, accessKeys,
                 octx, rule, bus, server, objects, listing,
      multipart, canon, merged, builder>>

\* the request body ends without a zero-length chunk
ChunkedEnd ==
    /\ chunked.phase = "reading"
    /\ chunked' = ChunkedFail(chunked, "IncompleteBody")
    /\ UNCHANGED <<options, vctx, actx, store, last, registry, accessKeys,
                 octx, rule, bus, server, objects, listing,
      multipart, canon, merged, builder>>

\* the next upload
ChunkedReset ==
    /\ chunked.phase = "done"
    /\ chunked' = IdleChunked
    /\ UNCHANGED <<options, vctx, actx, store, last, registry, accessKeys,
                 octx, rule, bus, server, objects, listing,
      multipart, canon, merged, builder>>

InitOther ==
    /\ options \in {o \in OptionSets :
                      o.useVhostBuckets /\ ~o.allowMismatchedSignatures}
    /\ vctx = IdleVctx
    /\ actx = IdleActx
    /\ registry = InitialRegistry
    /\ accessKeys = InitialAccessKeys

InitChunked ==
    /\ InitOther
    /\ chunked = IdleChunked
    /\ store = EmptyStore
    /\ last = IdleLast
    /\ InitLater

NextChunked == ChunkedStart \/ ChunkedData \/ ChunkedEnd \/ ChunkedReset

SpecChunked == InitChunked /\ [][NextChunked]_vars

(***************************************************************************)
(* The store: store[b] is defined for the buckets that exist and maps the  *)
(* keys of the bucket's objects to their content.                          *)
(***************************************************************************)
Buckets == {"bucket-a", "bucket-b"}
Keys == {"foo", "foo/bar"}
Contents == {"x", "y"}

Without(f, x) == [y \in DOMAIN f \ {x} |-> f[y]]
With(f, x, v) == [y \in DOMAIN f \cup {x} |-> IF y = x THEN v ELSE f[y]]

Done(op, b, k, result) ==
    [op |-> op, bucket |-> b, key |-> k, result |-> result,
     status |-> IF result = "ok" THEN 200 ELSE StatusOf(result),
     before |-> store]

StoreOthers ==
    <<options, vctx, actx, chunked, registry, accessKeys,
      octx, rule, bus, server, objects, listing,
      multipart, canon, merged, builder>>

\* store.putBucket(name), behind PUT /{bucket}
PutBucket ==
    /\ \E b \in Buckets :
         /\ store' = IF b \in DOMAIN store THEN store
                     ELSE With(store, b, NoObjects)
         /\ last' = Done("putBucket", b, "none", "ok")
    /\ UNCHANGED StoreOthers

\* store.putObject, behind PUT /{bucket}/{key}
PutObject ==
    /\ \E b \in Buckets, k \in Keys, v \in Contents :
         IF b \notin DOMAIN store
         THEN /\ store' = store
              /\ last' = Done("putObject", b, k, "NoSuchBucket")
         ELSE /\ store' = [store EXCEPT ![b] = With(store[b], k, v)]
              /\ last' = Done("putObject", b, k, "ok")
    /\ UNCHANGED StoreOthers

\* store.deleteObject, behind DELETE /{bucket}/{key}
DeleteObject ==
    /\ \E b \in Buckets, k \in Keys :
         IF b \notin DOMAIN store
         THEN /\ store' = store
              /\ last' = Done("deleteObject", b, k, "NoSuchBucket")
         ELSE /\ store' = [store EXCEPT ![b] = Without(store[b], k)]
              /\ last' = Done("deleteObject", b, k, "ok")
    /\ UNCHANGED StoreOthers

\* a bug that removes a bucket whatever it holds
BucketIsEmptyAlways(b) == TRUE

\* the bucket holds no object
BucketIsEmpty(b) == DOMAIN store[b] = {}

\* store.deleteBucket, behind DELETE /{bucket}
DeleteBucket ==
    /\ \E b \in Buckets :
         IF b \notin DOMAIN store
         THEN /\ store' = store
              /\ last' = Done("deleteBucket", b, "none", "NoSuchBucket")
         ELSE IF ~BucketIsEmpty(b)
         THEN /\ store' = store
              /\ last' = Done("deleteBucket", b, "none", "BucketNotEmpty")
         ELSE /\ store' = Without(store, b)
              /\ last' = Done("deleteBucket", b, "none", "ok")
    /\ UNCHANGED StoreOthers

InitStore ==
    /\ InitOther
    /\ chunked = IdleChunked
    /\ store = EmptyStore
    /\ last = IdleLast
    /\ InitLater

NextStore == PutBucket \/ PutObject \/ DeleteObject \/ DeleteBucket

SpecStore == InitStore /\ [][NextStore]_vars

(***************************************************************************)
(* The responseHeaderOverride middleware.  A query parameter name is a     *)
(* record [prefix, rest]: the text up to and including its first "-" that  *)
(* may be 'response-', and what follows it.  The query is the sequence of  *)
(* its parameters in the order Object.keys gives them.                     *)
(***************************************************************************)
MaxQueryParams == 2

ResponsePrefix == "response-"

RESPONSE_HEADERS ==
    {QueryKey(ResponsePrefix, r) :
        r \in {"content-type", "content-language", "expires",
               "cache-control", "content-disposition", "content-encoding"}}

\* key.startsWith('response-')
StartsWithResponse(key) == key.prefix = ResponsePrefix

\* capitalizeHeader(key.slice('response-'.length)) for the names that get
\* that far
CapitalizeHeader(rest) ==
    CASE rest = "content-type" -> "Content-Type"
      [] rest = "content-language" -> "Content-Language"
      [] rest = "expires" -> "Expires"
      [] rest = "cache-control" -> "Cache-Control"
      [] rest = "content-disposition" -> "Content-Disposition"
      [] rest = "content-encoding" -> "Content-Encoding"
      [] rest = "foo" -> "Foo"
      [] OTHER -> rest

\* what the object controller answers for a stored object
StoredHeaders ==
    [h \in HeaderNames |->
        IF h = "Content-Type" THEN "binary/octet-stream" ELSE "none"]

\* a bug that lets unknown response-* parameters through as ordinary ones
UnpermittedNone(q) == {}

\* the indices of the parameters pickBy throws on
Unpermitted(q) ==
    {i \in 1..Len(q) :
        StartsWithResponse(q[i].key) /\ q[i].key \notin RESPONSE_HEADERS}

\* the indices of the parameters pickBy keeps
Picked(q) == {i \in 1..Len(q) : StartsWithResponse(q[i].key)}

\* next(): the object controller answers, or throws NoSuchKey
OverrideNext(c) ==
    IF c.found
    THEN [c EXCEPT !.phase = "done", !.handlerRan = TRUE, !.status = 200,
                   !.headers = StoredHeaders]
    ELSE [c EXCEPT !.phase = "done", !.handlerRan = TRUE,
                   !.error = "NoSuchKey", !.status = StatusOf("NoSuchKey")]

\* ctx.set(overrides), reached when next() returned
SetOverrides(c, q) ==
    IF c.error # "none" THEN c
    ELSE [c EXCEPT
            !.overridden = {CapitalizeHeader(q[i].key.rest) : i \in Picked(q)},
            !.headers =
               [h \in HeaderNames |->
                  IF \E i \in Picked(q) : CapitalizeHeader(q[i].key.rest) = h
                  THEN q[CHOOSE i \in Picked(q) :
                             CapitalizeHeader(q[i].key.rest) = h].value
                  ELSE c.headers[h]]]

OverrideThrow(c, code) ==
    [c EXCEPT !.phase = "done", !.error = code, !.status = StatusOf(code)]

\* a bug that lets anonymous requests override
AnonymousOverrideNever(c, q) == FALSE

\* !isEmpty(overrides) && !ctx.state.account
AnonymousOverride(c, q) == Picked(q) # {} /\ c.account = "none"

\* responseHeaderOverride(ctx, next)
ResponseHeaderOverride(c) ==
    LET q == c.query
    IN IF c.website THEN OverrideNext(c)
       ELSE IF Unpermitted(q) # {}
       THEN LET i == CHOOSE j \in Unpermitted(q) :
                        \A k \in Unpermitted(q) : j <= k
            IN [OverrideThrow(c, "InvalidArgument") EXCEPT
                   !.ArgumentName = q[i].key, !.ArgumentValue = q[i].value]
       ELSE IF c.method \in {"HEAD", "GET"}
       THEN IF AnonymousOverride(c, q)
            THEN OverrideThrow(c, "InvalidRequest")
            ELSE SetOverrides(OverrideNext(c), q)
       ELSE OverrideNext(c)

\* the parameter names and values the requests are built from
OverrideKeys ==
    {QueryKey(ResponsePrefix, "content-type"),
     QueryKey(ResponsePrefix, "content-disposition"),
     QueryKey(ResponsePrefix, "foo"),
     QueryKey(ResponsePrefix, ""),
     QueryKey("Response-", "content-type"),
     QueryKey("", "prefix")}

OverrideValues == {"image/jpeg", "attachment"}

RECURSIVE QueriesOf(_)
QueriesOf(n) ==
    IF n = 0 THEN {<<>>}
    ELSE LET shorter == QueriesOf(n - 1)
         IN shorter \cup
            {Append(q, [key |-> k, value |-> v]) :
               q \in {x \in shorter : Len(x) = n - 1},
               k \in OverrideKeys, v \in OverrideValues}

DistinctKeys(q) == \A i, j \in 1..Len(q) : q[i].key = q[j].key => i = j

Queries == {q \in QueriesOf(MaxQueryParams) : DistinctKeys(q)}

OverrideOthers ==
    <<options, vctx, actx, chunked, store, last, registry, accessKeys,
      rule, bus, server, objects, listing,
      multipart, canon, merged, builder>>

\* a request reaches the middleware, after authentication set or did not
\* set ctx.state.account
OverrideReceive ==
    /\ octx.phase \in {"idle", "done"}
    /\ \E w \in BOOLEAN, m \in {"GET", "HEAD", "PUT"}, q \in Queries,
          a \in {"none", DummyAccount}, f \in BOOLEAN :
         octx' = [IdleOctx EXCEPT !.phase = "received", !.website = w,
                                      !.method = m, !.query = q,
                                      !.account = a, !.found = f]
    /\ UNCHANGED OverrideOthers

Override ==
    /\ octx.phase = "received"
    /\ octx' = ResponseHeaderOverride(octx)
    /\ UNCHANGED OverrideOthers

InitBase ==
    /\ InitOther
    /\ chunked = IdleChunked
    /\ store = EmptyStore
    /\ last = IdleLast

InitOverride ==
    /\ InitBase
    /\ octx = IdleOctx
    /\ rule = IdleRule
    /\ bus = IdleBus
    /\ server = IdleServer
    /\ objects = IdleObjects
    /\ listing = IdleListing
    /\ InitLast

NextOverride == OverrideReceive \/ Override

SpecOverride == InitOverride /\ [][NextOverride]_vars

(***************************************************************************)
(* lib/models/routing-rule.  Strings are sequences of characters (the      *)
(* protocol and the host name are one token each); Undefined is a field    *)
(* that the config does not hold, and 0 a number that it does not hold.    *)
(***************************************************************************)
\* JavaScript truthiness of a string field
Truthy(x) == x # Undefined /\ x # <<>>

\* the least index at which pattern occurs in s, 0 when it does not
IndexOf(s, pattern) ==
    LET at == {i \in 1..(Len(s) - Len(pattern) + 1) :
                 SubSeq(s, i, i + Len(pattern) - 1) = pattern}
    IN IF at = {} THEN 0 ELSE CHOOSE i \in at : \A j \in at : i <= j

\* the replacement text of String.prototype.replace: $$ is a dollar sign
\* and $& the matched text
RECURSIVE Expand(_, _)
Expand(replacement, matched) ==
    IF replacement = <<>> THEN <<>>
    ELSE IF Len(replacement) >= 2 /\ replacement[1] = "$"
            /\ replacement[2] = "$"
    THEN <<"$">> \o Expand(SubSeq(replacement, 3, Len(replacement)), matched)
    ELSE IF Len(replacement) >= 2 /\ replacement[1] = "$"
            /\ replacement[2] = "&"
    THEN matched \o Expand(SubSeq(replacement, 3, Len(replacement)), matched)
    ELSE <<replacement[1]>> \o Expand(Tail(replacement), matched)

\* key.replace(pattern, replacement) with a string pattern: the first
\* occurrence is replaced
ReplaceString(key, pattern, replacement) ==
    LET i == IndexOf(key, pattern)
    IN IF i = 0 THEN key
       ELSE SubSeq(key, 1, i - 1) \o Expand(replacement, pattern)
            \o SubSeq(key, i + Len(pattern), Len(key))

\* key.replace(/^/, replacement)
ReplaceStart(key, replacement) == Expand(replacement, <<>>) \o key

\* new RoutingRule(config).statusCode
RuleStatusCode(config) ==
    IF config.hasRedirect /\ config.Redirect.HttpRedirectCode # 0
    THEN config.Redirect.HttpRedirectCode
    ELSE 301

\* a bug that redirects whatever the condition is
ShouldRedirectAlways(config, key, statusCode) == TRUE

\* RoutingRule.shouldRedirect(key, statusCode)
ShouldRedirect(config, key, statusCode) ==
    LET condition == config.Condition
    IN IF ~config.hasCondition THEN TRUE
       ELSE IF Truthy(condition.KeyPrefixEquals)
               /\ condition.HttpErrorCodeReturnedEquals # 0
       THEN /\ StartsWith(key, condition.KeyPrefixEquals)
            /\ condition.HttpErrorCodeReturnedEquals = statusCode
       ELSE IF Truthy(condition.KeyPrefixEquals)
       THEN StartsWith(key, condition.KeyPrefixEquals)
       ELSE IF condition.HttpErrorCodeReturnedEquals # 0
       THEN condition.HttpErrorCodeReturnedEquals = statusCode
       ELSE FALSE

\* the redirect key of RoutingRule.getRedirectLocation
RedirectKey(config, key) ==
    LET redirect == config.Redirect
        condition == config.Condition
    IN IF Truthy(redirect.ReplaceKeyPrefixWith)
       THEN IF config.hasCondition /\ Truthy(condition.KeyPrefixEquals)
            THEN ReplaceString(key, condition.KeyPrefixEquals,
                               redirect.ReplaceKeyPrefixWith)
            ELSE ReplaceStart(key, redirect.ReplaceKeyPrefixWith)
       ELSE IF Truthy(redirect.ReplaceKeyWith)
       THEN redirect.ReplaceKeyWith
       ELSE key

\* RoutingRule.getRedirectLocation(key, defaults)
GetRedirectLocation(config, key, defaults) ==
    LET protocol == IF Truthy(config.Redirect.Protocol)
                    THEN config.Redirect.Protocol ELSE defaults.protocol
        hostName == IF Truthy(config.Redirect.HostName)
                    THEN config.Redirect.HostName ELSE defaults.hostname
    IN protocol \o <<"://">> \o hostName \o <<"/">> \o RedirectKey(config, key)

RuleDefaults == [protocol |-> <<"https">>, hostname |-> <<"example.com">>]

Conditions ==
    [KeyPrefixEquals : {Undefined, <<>>, <<"p">>, <<"p", "/">>},
     HttpErrorCodeReturnedEquals : {0, 404}]

Redirects ==
    [Protocol : {Undefined, <<"http">>},
     HostName : {Undefined, <<"localhost">>},
     ReplaceKeyPrefixWith : {Undefined, <<"r", "/">>, <<"$", "&", "r">>},
     ReplaceKeyWith : {Undefined, <<"r">>},
     HttpRedirectCode : {0, 307}]

RuleConfigs ==
    {[hasCondition |-> hc, Condition |-> c, hasRedirect |-> TRUE, Redirect |-> r] :
        hc \in BOOLEAN, c \in Conditions, r \in Redirects}

RuleKeys == {<<"k">>, <<"p", "/", "k">>, <<"k", "p", "/">>, <<"p", "k">>}
RuleStatuses == {200, 404}

RuleOthers ==
    <<options, vctx, actx, chunked, store, last, registry, accessKeys,
      octx, bus, server, objects, listing,
      multipart, canon, merged, builder>>

\* a rule is built from its config and a request key and status come in; a
\* config without Condition carries none
RuleReceive ==
    /\ rule.phase \in {"idle", "located", "passed"}
    /\ \E config \in RuleConfigs, key \in RuleKeys, status \in RuleStatuses :
         /\ ~config.hasCondition => config.Condition = NoCondition
         /\ rule' = [IdleRule EXCEPT !.phase = "built", !.config = config,
                                         !.key = key, !.status = status,
                                         !.statusCode = RuleStatusCode(config)]
    /\ UNCHANGED RuleOthers

\* rule.shouldRedirect(key, statusCode)
RuleShouldRedirect ==
    /\ rule.phase = "built"
    /\ LET should == ShouldRedirect(rule.config, rule.key, rule.status)
       IN rule' = [rule EXCEPT !.should = should,
                               !.phase = IF should THEN "matched" ELSE "passed"]
    /\ UNCHANGED RuleOthers

\* rule.getRedirectLocation(key, defaults) of a rule that matched
RuleGetRedirectLocation ==
    /\ rule.phase = "matched"
    /\ rule' = [rule EXCEPT
                  !.phase = "located",
                  !.redirectKey = RedirectKey(rule.config, rule.key),
                  !.location = GetRedirectLocation(rule.config, rule.key,
                                                   RuleDefaults)]
    /\ UNCHANGED RuleOthers

InitRule ==
    /\ InitBase
    /\ octx = IdleOctx
    /\ rule = IdleRule
    /\ bus = IdleBus
    /\ server = IdleServer
    /\ objects = IdleObjects
    /\ listing = IdleListing
    /\ InitLast

NextRule == RuleReceive \/ RuleShouldRedirect \/ RuleGetRedirectLocation

SpecRule == InitRule /\ [][NextRule]_vars

(***************************************************************************)
(* lib/models/event and the 'event' emitter.  bus.log is the sequence of   *)
(* mutations done so far, each with the envelope that was published for    *)
(* it.  The controllers hand S3Event the kind of the mutation as           *)
(* eventData.eventType.                                                    *)
(***************************************************************************)
MaxEvents == 2

\* the switch of the S3Event constructor; "" is the initial eventName
EventName(eventType) ==
    CASE eventType = "Copy" -> "ObjectCreated:Copy"
      [] eventType = "Put" -> "ObjectCreated:Put"
      [] eventType = "Post" -> "ObjectCreated:Post"
      [] eventType = "Delete" -> "ObjectRemoved:Delete"
      [] OTHER -> ""

\* new S3Event(eventData, reqParams)
S3Event(eventData) ==
    [Records |->
        <<[eventVersion |-> "2.0",
           eventSource |-> "aws:s3",
           awsRegion |-> "us-east-1",
           eventName |-> EventName(eventData.eventType),
           bucket |-> eventData.bucket,
           key |-> eventData.key,
           hasSize |-> eventData.eventType \in {"Copy", "Put", "Post"},
           hasETag |-> eventData.eventType \in {"Put", "Post"}]>>]

Mutations == {"Put", "Post", "Copy", "CompleteMultipartUpload", "Delete"}

BusOthers ==
    <<options, vctx, actx, chunked, store, last, registry, accessKeys,
      octx, rule, server, objects, listing,
      multipart, canon, merged, builder>>

\* a controller changes an object and emits 'event' with the S3Event of it
ObjectMutation ==
    /\ Len(bus.log) < MaxEvents
    /\ \E m \in Mutations, b \in {"bucket-a", "bucket-b"},
          k \in {"testPutKey", "testDelete", "testCopy"} :
         bus' = [bus EXCEPT
                   !.log = Append(@, [mutation |-> m,
                                      envelope |-> S3Event([eventType |-> m,
                                                            bucket |-> b,
                                                            key |-> k])])]
    /\ UNCHANGED BusOthers

\* the listener's record is cleared
BusReset ==
    /\ bus.log # <<>>
    /\ bus' = [bus EXCEPT !.log = <<>>]
    /\ UNCHANGED BusOthers

InitBus ==
    /\ InitBase
    /\ octx = IdleOctx
    /\ rule = IdleRule
    /\ bus = IdleBus
    /\ server = IdleServer
    /\ objects = IdleObjects
    /\ listing = IdleListing
    /\ InitLast

NextBus == ObjectMutation \/ BusReset

SpecBus == InitBus /\ [][NextBus]_vars

(***************************************************************************)
(* build: the function it returns (run), configureBuckets and close.  The  *)
(* server works on the store; server.configs holds the store's             *)
(* subresources, bucket -> type -> the id of the stored config.  Each      *)
(* entry of options.buckets is configured by its own async task; a task    *)
(* has done server.pc[t] of its store calls.                               *)
(***************************************************************************)
ConfigTypes == {"cors", "website"}

Config(type, id, problem) == [type |-> type, id |-> id, problem |-> problem]

Cors1 == Config("cors", "cors-test0", "none")
Cors2 == Config("cors", "cors-test1", "none")
Website1 == Config("website", "website-test0", "none")
BadType == Config("lifecycle", "unsupported", "unsupported configuration type")
BadWildcard == Config("cors", "cors-invalid0", "more than one wildcard")
BadMethod == Config("cors", "cors-invalid1", "unsupported HTTP method")
BadMissing == Config("cors", "cors-invalid2", "MalformedXML")

Entry(name, configs) == [name |-> name, configs |-> configs]

\* the values of options.buckets
BucketLists ==
    {<<>>,
     <<Entry("bucket-a", <<>>)>>,
     <<Entry("bucket-a", <<Cors1>>)>>,
     <<Entry("bucket-a", <<Cors1, Cors2>>)>>,
     <<Entry("bucket-a", <<Cors2, Website1>>)>>,
     <<Entry("bucket-a", <<BadWildcard>>)>>,
     <<Entry("bucket-b", <<BadMethod>>)>>,
     <<Entry("bucket-b", <<BadMissing>>)>>,
     <<Entry("bucket-b", <<Website1, BadType>>)>>,
     <<Entry("bucket-a", <<Cors1>>), Entry("bucket-b", <<Website1, Cors2>>)>>,
     <<Entry("bucket-a", <<Cors1, Website1>>), Entry("bucket-b", <<BadWildcard>>)>>,
     <<Entry("bucket-a", <<BadMissing>>), Entry("bucket-b", <<Cors2>>)>>,
     <<Entry("bucket-a", <<Cors1>>), Entry("bucket-a", <<Website1>>)>>}

\* a bug that stores whatever it is given
ConfigIsValidAlways(config) == TRUE

\* loadConfigModel(xml) throws on an invalid config
ConfigIsValid(config) == config.problem = "none"

NoConfigs == [b \in Buckets |-> [t \in ConfigTypes |-> "none"]]

\* useResetOnClose after DefaultBuilder.with(defaultOptions) and the
\* caller's setting, if any
UseResetOnClose(setting) == IF setting = "unset" THEN FALSE ELSE setting = "true"

\* a bug that resets when it was not asked to
ResetsOnCloseInverted(setting) == ~UseResetOnClose(setting)

\* if (useResetOnClose) in the server's 'close' listener
ResetsOnClose(setting) == UseResetOnClose(setting)

ServerOthers ==
    <<options, vctx, actx, chunked, last, registry, accessKeys,
      octx, rule, bus, objects, listing,
      multipart, canon, merged, builder>>

\* build(options) and the call of the run function it returns: the tasks
\* of configureBuckets are started
ServerRun ==
    /\ server.phase \in {"idle", "closed", "rejected"}
    /\ \A t \in 1..Len(server.buckets) :
         t \in server.failed \/ server.pc[t] = 1 + Len(server.buckets[t].configs)
    /\ \E setting \in {"unset", "true", "false"}, buckets \in BucketLists :
         server' = [server EXCEPT
                      !.phase = "configuring",
                      !.useResetOnClose = setting,
                      !.buckets = buckets,
                      !.pc = [t \in 1..Len(buckets) |-> 0],
                      !.failed = {},
                      !.puts = <<>>,
                      !.listened = FALSE,
                      !.storeBeforeClose = EmptyStore,
                      !.configsBeforeClose = NoConfigs]
    /\ store' = store
    /\ UNCHANGED ServerOthers

\* the next store call of task t of configureBuckets: putBucket, then for
\* each config loadConfigModel and putSubresource; a config that does not
\* load rejects the task, and with it Promise.all and run
ConfigureStep(t) ==
    LET entry == server.buckets[t]
    IN IF server.pc[t] = 0
       THEN /\ store' = IF entry.name \in DOMAIN store THEN store
                        ELSE With(store, entry.name, NoObjects)
            /\ server' = [server EXCEPT !.pc[t] = 1]
       ELSE LET config == entry.configs[server.pc[t]]
            IN /\ store' = store
               /\ server' =
                    IF ConfigIsValid(config)
                    THEN [server EXCEPT
                            !.pc[t] = @ + 1,
                            !.configs[entry.name][config.type] = config.id,
                            !.puts = Append(@, [task |-> t, name |-> entry.name,
                                                index |-> server.pc[t],
                                                id |-> config.id])]
                    ELSE [server EXCEPT !.failed = @ \cup {t},
                                        !.phase = "rejected"]

ConfigureBuckets ==
    /\ server.phase \in {"configuring", "rejected"}
    /\ \E t \in 1..Len(server.buckets) :
         /\ t \notin server.failed
         /\ server.pc[t] < 1 + Len(server.buckets[t].configs)
         /\ ConfigureStep(t)
    /\ UNCHANGED ServerOthers

\* await configureBuckets(...) returned: server.listen
ServerListen ==
    /\ server.phase = "configuring"
    /\ \A t \in 1..Len(server.buckets) :
         server.pc[t] = 1 + Len(server.buckets[t].configs)
    /\ server' = [server EXCEPT !.phase = "listening", !.listened = TRUE]
    /\ store' = store
    /\ UNCHANGED ServerOthers

\* a request served while listening: an object is put or deleted
ServerRequest ==
    /\ server.phase = "listening"
    /\ \E b \in DOMAIN store, k \in {"foo"} :
         \/ store' = [store EXCEPT ![b] = With(store[b], k, "x")]
         \/ store' = [store EXCEPT ![b] = Without(store[b], k)]
    /\ server' = server
    /\ UNCHANGED ServerOthers

\* close(): the 'close' listener registered by run resets the store when
\* asked to, then the promise of close resolves
ServerClose ==
    /\ server.phase = "listening"
    /\ server' = [server EXCEPT
                    !.phase = "closed",
                    !.storeBeforeClose = store,
                    !.configsBeforeClose = server.configs,
                    !.configs = IF ResetsOnClose(server.useResetOnClose)
                                THEN NoConfigs ELSE @]
    /\ store' = IF ResetsOnClose(server.useResetOnClose)
                THEN EmptyStore ELSE store
    /\ UNCHANGED ServerOthers

InitServer ==
    /\ InitOther
    /\ chunked = IdleChunked
    /\ store \in {EmptyStore, [b \in {"bucket-a"} |-> [k \in {"foo"} |-> "y"]]}
    /\ last = IdleLast
    /\ octx = IdleOctx
    /\ rule = IdleRule
    /\ bus = IdleBus
    /\ server = IdleServer
    /\ objects = IdleObjects
    /\ listing = IdleListing
    /\ InitLast

NextServer ==
    \/ ServerRun
    \/ ConfigureBuckets
    \/ ServerListen
    \/ ServerRequest
    \/ ServerClose

SpecServer == InitServer /\ [][NextServer]_vars

(***************************************************************************)
(* lib/models/object: the S3Object constructor, and the object controller  *)
(* around it.  objects.stored maps the keys of one bucket to the stored    *)
(* S3Object; a metadata field that the request does not carry is Absent.   *)
(***************************************************************************)
STORAGE_CLASSES ==
    {"STANDARD", "REDUCED_REDUNDANCY", "STANDARD_IA", "ONEZONE_IA",
     "INTELLIGENT_TIERING", "GLACIER", "DEEP_ARCHIVE", "OUTPOSTS"}

\* a bug that takes any storage class
IncludesStorageClassAny(value) == TRUE

\* S3Object.STORAGE_CLASSES.includes(metadata['x-amz-storage-class'])
IncludesStorageClass(value) == value \in STORAGE_CLASSES

\* new S3Object(bucket, key, content, metadata): the error thrown, or the
\* object
NewS3Object(key, content, metadata) ==
    IF metadata.storageClass # Absent
       /\ ~IncludesStorageClass(metadata.storageClass)
    THEN [error |-> "InvalidStorageClass", key |-> key, content |-> "",
          metadata |-> metadata]
    ELSE [error |-> "none", key |-> key, content |-> content,
          metadata |-> [storageClass |-> metadata.storageClass,
                        contentType |-> IF metadata.contentType \in {Absent, ""}
                                        THEN "binary/octet-stream"
                                        ELSE metadata.contentType]]

ObjectKeys == {"somekey", "otherkey"}
ObjectBodies == {"Hello!", "Bye!"}
StorageClassHeaders ==
    STORAGE_CLASSES \cup {Absent, "BAD_STORAGE", "standard_ia", ""}

ObjectsOthers ==
    <<options, vctx, actx, chunked, store, last, registry, accessKeys,
      octx, rule, bus, server, listing,
      multipart, canon, merged, builder>>

\* PUT /{bucket}/{key}: the controller builds the S3Object from the body
\* and the request's headers and hands it to the store
PutObjectWithMetadata ==
    /\ \E k \in ObjectKeys, body \in ObjectBodies, sc \in StorageClassHeaders :
         LET object == NewS3Object(k, body, [storageClass |-> sc,
                                             contentType |-> Absent])
             op == [op |-> "put", key |-> k, content |-> body,
                    storageClass |-> sc, before |-> objects.stored,
                    StorageClass |-> Absent, Body |-> ""]
         IN IF object.error # "none"
            THEN objects' =
                   [objects EXCEPT
                      !.last = op @@ [error |-> object.error,
                                      status |-> StatusOf(object.error)]]
            ELSE objects' =
                   [stored |-> With(objects.stored, k, object),
                    last |-> op @@ [error |-> "none", status |-> 200]]
    /\ UNCHANGED ObjectsOthers

\* GET /{bucket}/{key}: the stored object's body and storage class
GetObjectWithMetadata ==
    /\ \E k \in ObjectKeys :
         LET op == [op |-> "get", key |-> k, content |-> "",
                    storageClass |-> Absent, before |-> objects.stored]
         IN IF k \notin DOMAIN objects.stored
            THEN objects' =
                   [objects EXCEPT
                      !.last = op @@ [error |-> "NoSuchKey",
                                      status |-> StatusOf("NoSuchKey"),
                                      StorageClass |-> Absent, Body |-> ""]]
            ELSE objects' =
                   [objects EXCEPT
                      !.last = op @@
                        [error |-> "none", status |-> 200,
                         StorageClass |->
                            objects.stored[k].metadata.storageClass,
                         Body |-> objects.stored[k].content]]
    /\ UNCHANGED ObjectsOthers

InitObjects ==
    /\ InitBase
    /\ octx = IdleOctx
    /\ rule = IdleRule
    /\ bus = IdleBus
    /\ server = IdleServer
    /\ objects = IdleObjects
    /\ listing = IdleListing
    /\ InitLast

NextObjects == PutObjectWithMetadata \/ GetObjectWithMetadata

SpecObjects == InitObjects /\ [][NextObjects]_vars

(***************************************************************************)
(* ListObjectsV2, paged.  Keys are sequences of characters, compared byte  *)
(* by byte.  A continuation token is opaque to the client: it holds the    *)
(* last entry of the page it came with, a key or a common prefix.          *)
(***************************************************************************)
MaxListKeys == 3

CharCode(ch) ==
    CASE ch = "/" -> 47
      [] ch = "a" -> 97
      [] ch = "b" -> 98

\* s sorts strictly before t
RECURSIVE Less(_, _)
Less(s, t) ==
    IF t = <<>> THEN FALSE
    ELSE IF s = <<>> THEN TRUE
    ELSE IF s[1] # t[1] THEN CharCode(s[1]) < CharCode(t[1])
    ELSE Less(Tail(s), Tail(t))

NoToken == [kind |-> "none", value |-> <<>>]

\* a bug that resumes after a common prefix as after a key
AfterTokenByKey(token, key) ==
    token.kind = "none" \/ Less(token.value, key)

\* the keys a page may still return when the listing resumes after token
AfterToken(token, key) ==
    CASE token.kind = "none" -> TRUE
      [] token.kind = "key" -> Less(token.value, key)
      [] token.kind = "prefix" ->
            Less(token.value, key) /\ ~StartsWith(key, token.value)

\* what a key is listed as: itself, or the common prefix up to the first
\* delimiter after the prefix
EntryOf(key, prefix, delimiter) ==
    LET rest == Drop(key, Len(prefix))
        idx == IF delimiter = <<>> THEN 0 ELSE IndexOf(rest, delimiter)
    IN IF idx = 0
       THEN [kind |-> "key", value |-> key]
       ELSE [kind |-> "prefix",
             value |-> SubSeq(key, 1, Len(prefix) + idx + Len(delimiter) - 1)]

RECURSIVE SortEntries(_)
SortEntries(S) ==
    IF S = {} THEN <<>>
    ELSE LET first == CHOOSE e \in S :
                         \A f \in S \ {e} : Less(e.value, f.value)
         IN <<first>> \o SortEntries(S \ {first})

\* store.listObjects and the ListObjectsV2 response made of it
ListObjectsV2(keys, prefix, delimiter, token, maxKeys) ==
    LET entries == {EntryOf(k, prefix, delimiter) :
                      k \in {x \in keys : StartsWith(x, prefix)
                                          /\ AfterToken(token, x)}}
        sorted == SortEntries(entries)
        n == IF Len(sorted) < maxKeys THEN Len(sorted) ELSE maxKeys
        page == SubSeq(sorted, 1, n)
        truncated == Len(sorted) > n
    IN [Contents |-> SelectSeq(page, LAMBDA e : e.kind = "key"),
        CommonPrefixes |-> SelectSeq(page, LAMBDA e : e.kind = "prefix"),
        KeyCount |-> n,
        IsTruncated |-> truncated,
        NextContinuationToken |-> IF truncated THEN page[n] ELSE NoToken]

ListKeyUniverse ==
    {<<"a">>, <<"a", "/", "a">>, <<"a", "/", "b">>, <<"a", "b">>,
     <<"b">>, <<"b", "/", "a">>, <<"a", "/", "a", "/", "b">>}

ListPrefixes == {<<>>, <<"a">>, <<"a", "/">>}
ListDelimiters == {<<>>, <<"/">>}

ListingOthers ==
    <<options, vctx, actx, chunked, store, last, registry, accessKeys,
      octx, rule, bus, server, objects,
      multipart, canon, merged, builder>>

\* the first ListObjectsV2 call of a walk over a bucket holding keys
ListingStart ==
    /\ listing.phase = "idle"
    /\ \E keys \in SUBSET ListKeyUniverse, prefix \in ListPrefixes,
          delimiter \in ListDelimiters, maxKeys \in 1..MaxListKeys :
         LET page == ListObjectsV2(keys, prefix, delimiter, NoToken, maxKeys)
         IN listing' = [phase |-> IF page.IsTruncated THEN "paging" ELSE "done",
                        keys |-> keys, prefix |-> prefix,
                        delimiter |-> delimiter, maxKeys |-> maxKeys,
                        pages |-> <<page>>]
    /\ UNCHANGED ListingOthers

\* the next call, with the NextContinuationToken of the last page
ListingNext ==
    /\ listing.phase = "paging"
    /\ LET token == listing.pages[Len(listing.pages)].NextContinuationToken
           page == ListObjectsV2(listing.keys, listing.prefix,
                                 listing.delimiter, token, listing.maxKeys)
       IN listing' = [listing EXCEPT
                        !.phase = IF page.IsTruncated THEN "paging" ELSE "done",
                        !.pages = Append(@, page)]
    /\ UNCHANGED ListingOthers

\* the client is through with the walk
ListingEnd ==
    /\ listing.phase = "done"
    /\ listing' = IdleListing
    /\ UNCHANGED ListingOthers

InitListing ==
    /\ InitBase
    /\ octx = IdleOctx
    /\ rule = IdleRule
    /\ bus = IdleBus
    /\ server = IdleServer
    /\ objects = IdleObjects
    /\ listing = IdleListing
    /\ InitLast

NextListing == ListingStart \/ ListingNext \/ ListingEnd

SpecListing == InitListing /\ [][NextListing]_vars

(***************************************************************************)
(* Multipart uploads of one bucket.  An upload holds the parts uploaded to *)
(* it, part number -> body; objects holds the body of the object stored    *)
(* under the key, as the sequence of part bodies it was assembled from.    *)
(***************************************************************************)
MaxUploads == 2

MinPartSize == 5242880

PartNumbers == {1, 2}
PartBodies == {"Hello!", "20MB"}

\* the byte length of a part body
PartSize(body) == IF body = "20MB" THEN 20971520 ELSE 6

\* the ETag UploadPart answers with
ETagOf(body) == <<"md5", body>>

MultipartOthers ==
    <<options, vctx, actx, chunked, store, last, registry, accessKeys,
      octx, rule, bus, server, objects, listing, canon, merged, builder>>

\* a bug that takes the listed parts in any order
PartsInOrderAny(parts) == TRUE

\* the part numbers of the list are strictly increasing
PartsInOrder(parts) ==
    \A i \in 1..(Len(parts) - 1) : parts[i].PartNumber < parts[i + 1].PartNumber

\* every listed part was uploaded to the upload, with the listed ETag
PartsUploaded(uploads, uploadId, parts) ==
    /\ uploadId \in DOMAIN uploads
    /\ \A i \in 1..Len(parts) :
         /\ uploads[uploadId][parts[i].PartNumber] # "none"
         /\ parts[i].ETag = ETagOf(uploads[uploadId][parts[i].PartNumber])

\* a part other than the last is smaller than 5 MiB
PartTooSmall(uploads, uploadId, parts) ==
    \E i \in 1..(Len(parts) - 1) :
        PartSize(uploads[uploadId][parts[i].PartNumber]) < MinPartSize

\* the error completeMultipart fails with, "none" when it succeeds
CompleteError(uploads, uploadId, parts) ==
    IF ~PartsInOrder(parts) \/ ~PartsUploaded(uploads, uploadId, parts)
    THEN "InvalidPart"
    ELSE IF PartTooSmall(uploads, uploadId, parts)
    THEN "EntityTooSmall"
    ELSE "none"

\* the bodies of the listed parts, in the order of the list
Assemble(uploads, uploadId, parts) ==
    [i \in 1..Len(parts) |-> uploads[uploadId][parts[i].PartNumber]]

NoParts == [n \in PartNumbers |-> "none"]

PartLists ==
    LET part == [PartNumber : PartNumbers, ETag : {ETagOf(b) : b \in PartBodies}]
    IN {<<p>> : p \in part} \cup {<<p, q>> : p \in part, q \in part}

MultipartDone(op, uploadId, parts, error) ==
    [op |-> op, uploadId |-> uploadId, parts |-> parts, error |-> error,
     uploadsBefore |-> multipart.uploads, objectBefore |-> multipart.object]

\* initiateMultipart(bucket, key, metadata)
InitiateMultipart ==
    /\ multipart.nextUploadId <= MaxUploads
    /\ LET uploadId == multipart.nextUploadId
       IN multipart' =
            [multipart EXCEPT
               !.uploads = With(@, uploadId, NoParts),
               !.nextUploadId = @ + 1,
               !.last = MultipartDone("initiate", uploadId, <<>>, "none")]
    /\ UNCHANGED MultipartOthers

\* uploadPart(bucket, key, uploadId, partNumber, bytes): a part uploaded
\* again is overwritten
UploadPart ==
    /\ \E uploadId \in DOMAIN multipart.uploads, n \in PartNumbers,
          body \in PartBodies :
         multipart' =
            [multipart EXCEPT
               !.uploads[uploadId][n] = body,
               !.last = MultipartDone("uploadPart", uploadId, <<>>, "none")]
    /\ UNCHANGED MultipartOthers

\* completeMultipart(bucket, key, uploadId, parts)
CompleteMultipart ==
    /\ \E uploadId \in 1..MaxUploads, parts \in PartLists :
         LET error == CompleteError(multipart.uploads, uploadId, parts)
         IN multipart' =
              IF error = "none"
              THEN [multipart EXCEPT
                      !.object = Assemble(multipart.uploads, uploadId, parts),
                      !.uploads = Without(@, uploadId),
                      !.last = MultipartDone("complete", uploadId, parts, "none")]
              ELSE [multipart EXCEPT
                      !.last = MultipartDone("complete", uploadId, parts, error)]
    /\ UNCHANGED MultipartOthers

\* abortMultipart(bucket, key, uploadId)
AbortMultipart ==
    /\ \E uploadId \in DOMAIN multipart.uploads :
         multipart' =
            [multipart EXCEPT
               !.uploads = Without(@, uploadId),
               !.last = MultipartDone("abort", uploadId, <<>>, "none")]
    /\ UNCHANGED MultipartOthers

InitMultipart ==
    /\ InitBase
    /\ octx = IdleOctx
    /\ rule = IdleRule
    /\ bus = IdleBus
    /\ server = IdleServer
    /\ objects = IdleObjects
    /\ listing = IdleListing
    /\ InitLast

NextMultipart ==
    InitiateMultipart \/ UploadPart \/ CompleteMultipart \/ AbortMultipart

SpecMultipart == InitMultipart /\ [][NextMultipart]_vars

(***************************************************************************)
(* lib/middleware/authentication: the canonical URI and the canonical      *)
(* query string of the request whose signature is verified.  The query of  *)
(* a request is the sequence of its name=value parameters as sent.         *)
(***************************************************************************)
MaxCanonParams == 2

\* String.prototype.charCodeAt
CodeUnit(ch) ==
    CASE ch \in Range(UpperCase) -> 64 + PositionIn(UpperCase, ch)
      [] ch \in Range(LowerCase) -> 96 + PositionIn(LowerCase, ch)
      [] ch \in Range(DigitChars) -> 47 + PositionIn(DigitChars, ch)
      [] ch = " " -> 32
      [] ch = "!" -> 33
      [] ch = "%" -> 37
      [] ch = "&" -> 38
      [] ch = "," -> 44
      [] ch = "-" -> 45
      [] ch = "." -> 46
      [] ch = "/" -> 47
      [] ch = "=" -> 61

HexDigits ==
    <<"0", "1", "2", "3", "4", "5", "6", "7", "8", "9",
      "A", "B", "C", "D", "E", "F">>

\* '%' + charCodeAt(0).toString(16).toUpperCase()
PercentEncoded(ch) ==
    <<"%", HexDigits[(CodeUnit(ch) \div 16) + 1], HexDigits[(CodeUnit(ch) % 16) + 1]>>

\* the characters encodeURIComponent leaves as they are
UriUnescaped ==
    Range(UpperCase) \cup Range(LowerCase) \cup Range(DigitChars)
    \cup {"-", "_", ".", "!", "~", "*", "'", "(", ")"}

RECURSIVE EncodeURIComponent(_)
EncodeURIComponent(s) ==
    IF s = <<>> THEN <<>>
    ELSE (IF s[1] \in UriUnescaped THEN <<s[1]>> ELSE PercentEncoded(s[1]))
         \o EncodeURIComponent(Tail(s))

\* utils.encodeURIComponentRFC3986: also escapes ! ' ( ) *
RECURSIVE EncodeURIComponentRFC3986(_)
EncodeURIComponentRFC3986(s) ==
    IF s = <<>> THEN <<>>
    ELSE (IF s[1] \in UriUnescaped \ {"!", "'", "(", ")", "*"}
          THEN <<s[1]>> ELSE PercentEncoded(s[1]))
         \o EncodeURIComponentRFC3986(Tail(s))

\* String.prototype.split('/')
RECURSIVE SplitSlash(_)
SplitSlash(s) ==
    LET idx == IndexOf(s, <<"/">>)
    IN IF idx = 0 THEN <<s>>
       ELSE <<SubSeq(s, 1, idx - 1)>> \o SplitSlash(Drop(s, idx))

\* Array.prototype.join(separator)
RECURSIVE Join(_, _)
Join(strings, separator) ==
    IF strings = <<>> THEN <<>>
    ELSE IF Len(strings) = 1 THEN strings[1]
    ELSE strings[1] \o separator \o Join(Tail(strings), separator)

\* canonicalizedResource = '/' + ctx.params.bucket + canonicalizedResource
VhostResource(mountPath, bucket) == <<"/">> \o bucket \o mountPath

\* canonicalizedResource, lines 86-103
CanonicalizedResource(c) ==
    LET resource ==
          IF c.bucket # <<>>
          THEN (IF c.vhost
                THEN VhostResource(c.mountPath, c.bucket)
                ELSE c.mountPath \o <<"/">> \o c.bucket)
               \o (IF c.key # <<>> THEN <<"/">> \o c.key ELSE <<>>)
          ELSE c.mountPath \o <<"/">>
        segments == SplitSlash(resource)
    IN Join([i \in 1..Len(segments) |-> EncodeURIComponentRFC3986(segments[i])],
            <<"/">>)

XAmzAlgorithm ==
    <<"X", "-", "A", "m", "z", "-", "A", "l", "g", "o", "r", "i", "t", "h", "m">>

XAmzSignature ==
    <<"X", "-", "A", "m", "z", "-", "S", "i", "g", "n", "a", "t", "u", "r", "e">>

\* ctx.query: the parameters by name, in the order the names first occur; a
\* name given more than once has the array of its values
CtxQuery(raw) ==
    LET firsts == SelectSeq([i \in 1..Len(raw) |-> i],
                            LAMBDA i : \A j \in 1..(i - 1) : raw[j].name # raw[i].name)
        valuesOf(name) ==
            LET same == SelectSeq(raw, LAMBDA p : p.name = name)
            IN [k \in 1..Len(same) |-> same[k].value]
    IN [k \in 1..Len(firsts) |->
          [param |-> raw[firsts[k]].name, values |-> valuesOf(raw[firsts[k]].name)]]

\* String(value): an array is joined with commas
ValueString(values) == Join(values, <<",">>)

\* s sorts before t by UTF-16 code units
RECURSIVE LessString(_, _)
LessString(s, t) ==
    IF t = <<>> THEN FALSE
    ELSE IF s = <<>> THEN TRUE
    ELSE IF s[1] # t[1] THEN CodeUnit(s[1]) < CodeUnit(t[1])
    ELSE LessString(Tail(s), Tail(t))

\* Array.prototype.sort() of strings
RECURSIVE SortStrings(_)
SortStrings(strings) ==
    IF strings = <<>> THEN <<>>
    ELSE LET m == CHOOSE i \in 1..Len(strings) :
                     \A j \in 1..Len(strings) : ~LessString(strings[j], strings[i])
         IN <<strings[m]>>
            \o SortStrings([k \in 1..(Len(strings) - 1) |->
                              IF k < m THEN strings[k] ELSE strings[k + 1]])

\* const mechanisms = { header, queryV4 } of the request
CanonMechanisms(c) ==
    [header |-> c.authorization,
     queryV4 |-> \E i \in 1..Len(c.raw) : c.raw[i].name = XAmzAlgorithm]

\* canonicalizedQueryString, lines 112-127
CanonicalizedQueryString(c) ==
    LET kept == SelectSeq(CtxQuery(c.raw),
                          LAMBDA e : ~(CanonMechanisms(c).queryV4
                                       /\ e.param = XAmzSignature))
        pairs == [k \in 1..Len(kept) |->
                    EncodeURIComponent(kept[k].param) \o <<"=">>
                    \o EncodeURIComponent(ValueString(kept[k].values))]
    IN Join(SortStrings(pairs), <<"&">>)

CanonNames == {<<"a">>, <<"a", "-", "b">>, XAmzAlgorithm, XAmzSignature}
CanonValues == {<<>>, <<"1">>, <<"a", " ", "b">>}

RECURSIVE RawQueriesOf(_)
RawQueriesOf(n) ==
    IF n = 0 THEN {<<>>}
    ELSE LET shorter == RawQueriesOf(n - 1)
         IN shorter \cup
            {Append(q, [name |-> nm, value |-> v]) :
               q \in {x \in shorter : Len(x) = n - 1},
               nm \in CanonNames, v \in CanonValues}

MountPaths == {<<>>, <<"/", "b", "a", "s", "e">>}
CanonBuckets == {<<>>, <<"b", "k", "t">>}
CanonKeys == {<<>>, <<"t">>, <<"d", "/", "a", " ", "!">>}

CanonOthers ==
    <<options, vctx, actx, chunked, store, last, registry, accessKeys,
      octx, rule, bus, server, objects, listing, multipart, merged, builder>>

\* a request with one authentication mechanism reaches the middleware; the
\* host router sets vhost only on requests it gave a bucket
CanonReceive ==
    /\ canon.phase = "idle"
    /\ \E raw \in RawQueriesOf(MaxCanonParams), authorization \in BOOLEAN,
          mountPath \in MountPaths, bucket \in CanonBuckets,
          key \in CanonKeys, isVhost \in BOOLEAN :
         /\ isVhost => bucket # <<>>
         /\ key # <<>> => bucket # <<>>
         /\ canon' = [phase |-> "received", raw |-> raw,
                      authorization |-> authorization,
                      mountPath |-> mountPath, bucket |-> bucket,
                      key |-> key, vhost |-> isVhost,
                      computed |-> FALSE, uri |-> <<>>, querystring |-> <<>>]
    /\ UNCHANGED CanonOthers

\* authentication(ctx, next) up to the canonical request
CanonicalRequest ==
    /\ canon.phase = "received"
    /\ LET count == (IF CanonMechanisms(canon).header THEN 1 ELSE 0)
                    + (IF CanonMechanisms(canon).queryV4 THEN 1 ELSE 0)
       IN canon' =
            IF count # 1
            THEN [canon EXCEPT !.phase = "done"]
            ELSE [canon EXCEPT !.phase = "done", !.computed = TRUE,
                               !.uri = CanonicalizedResource(canon),
                               !.querystring = CanonicalizedQueryString(canon)]
    /\ UNCHANGED CanonOthers

InitCanon ==
    /\ InitBase
    /\ octx = IdleOctx
    /\ rule = IdleRule
    /\ bus = IdleBus
    /\ server = IdleServer
    /\ objects = IdleObjects
    /\ listing = IdleListing
    /\ InitLast

NextCanon == CanonReceive \/ CanonicalRequest

SpecCanon == InitCanon /\ [][NextCanon]_vars

(***************************************************************************)
(* lib/models/account: AWSAccount and its static registry.                 *)
(***************************************************************************)
AccountNames == {DummyAccount, "Tester"}
KeyPairIds == {"S3RVER", "TESTER"}
SecretAccessKeys == {"S3RVER", "secret"}

NoAccessKeys == [k \in {} |-> "secret"]

AccountOthers ==
    <<options, vctx, actx, chunked, store, last,
      octx, rule, bus, server, objects, listing,
      multipart, canon, merged, builder>>

\* new AWSAccount(accountId, displayName)
NewAccount ==
    /\ \E a \in AccountNames \ DOMAIN accessKeys :
         accessKeys' = With(accessKeys, a, NoAccessKeys)
    /\ UNCHANGED registry
    /\ UNCHANGED AccountOthers

\* account.createKeyPair(accessKeyId, secretAccessKey)
CreateKeyPair ==
    /\ \E a \in DOMAIN accessKeys, accessKeyId \in KeyPairIds,
          secretAccessKey \in SecretAccessKeys :
         /\ registry' = With(registry, accessKeyId, a)
         /\ accessKeys' =
              [accessKeys EXCEPT ![a] = With(@, accessKeyId, secretAccessKey)]
    /\ UNCHANGED AccountOthers

\* account.revokeAccessKey(accessKeyId)
RevokeAccessKey ==
    /\ \E a \in DOMAIN accessKeys, accessKeyId \in KeyPairIds :
         /\ registry' = Without(registry, accessKeyId)
         /\ accessKeys' = [accessKeys EXCEPT ![a] = Without(@, accessKeyId)]
    /\ UNCHANGED AccountOthers

InitAccounts ==
    /\ InitBase
    /\ octx = IdleOctx
    /\ rule = IdleRule
    /\ bus = IdleBus
    /\ server = IdleServer
    /\ objects = IdleObjects
    /\ listing = IdleListing
    /\ InitLast

NextAccounts == NewAccount \/ CreateKeyPair \/ RevokeAccessKey

SpecAccounts == InitAccounts /\ [][NextAccounts]_vars

(***************************************************************************)
(* utils.builderFactory and DefaultBuilder.  DefaultBuilder is one proxy   *)
(* over one props object; a chain DefaultBuilder.a(x).b(y).build() calls   *)
(* its setters and then build.  Option values are written as strings.      *)
(***************************************************************************)
\* the values the tests and the command line give
OptionValues(o) ==
    CASE o = "useResetOnClose" -> {"true", "false"}
      [] o = "store" -> {"store1"}
      [] o = "emitter" -> {"emitter1"}
      [] o = "buckets" -> {"[foobars]"}
      [] o = "port" -> {"4569"}

BuilderOthers ==
    <<options, vctx, actx, chunked, store, last, registry, accessKeys,
      octx, rule, bus, server, objects, listing, multipart, canon, merged>>

\* DefaultBuilder[prop](value): target[propsObject][prop] = value, and the
\* receiver is returned
BuilderSet ==
    /\ \E prop \in BuilderOptions :
         \E value \in OptionValues(prop) :
            builder' = [builder EXCEPT !.props[prop] = value,
                                       !.chain[prop] = value]
    /\ UNCHANGED BuilderOthers

\* .build(): build(target[propsObject]) takes the options as they are now;
\* the chain ends
BuilderBuild ==
    /\ builder' = [builder EXCEPT
                     !.built = TRUE,
                     !.serverOptions = builder.props,
                     !.serverChain = builder.chain,
                     !.closed = FALSE,
                     !.reset = FALSE,
                     !.chain = NotSet]
    /\ UNCHANGED BuilderOthers

\* close() of the server built last: the 'close' listener resets the store
\* if (useResetOnClose)
BuilderClose ==
    /\ builder.built
    /\ ~builder.closed
    /\ builder' = [builder EXCEPT
                     !.closed = TRUE,
                     !.reset = ResetsOnClose(builder.serverOptions["useResetOnClose"])]
    /\ UNCHANGED BuilderOthers

InitBuilder ==
    /\ InitBase
    /\ octx = IdleOctx
    /\ rule = IdleRule
    /\ bus = IdleBus
    /\ server = IdleServer
    /\ objects = IdleObjects
    /\ listing = IdleListing
    /\ InitLast

NextBuilder == BuilderSet \/ BuilderBuild \/ BuilderClose

SpecBuilder == InitBuilder /\ [][NextBuilder]_vars

(***************************************************************************)
(* lib/middleware/authentication: the x-amz-* query parameters of a        *)
(* request are copied over its headers, and the route handler works on the *)
(* headers it is left with.  Header names are lower case, as node gives    *)
(* them; the query is the sequence of the parameters by name.              *)
(***************************************************************************)
MaxMergedParams == 2

XAmzMetaK == <<"X", "-", "A", "m", "z", "-", "M", "e", "t", "a", "-", "K">>
ContentType == <<"c", "o", "n", "t", "e", "n", "t", "-", "t", "y", "p", "e">>
PrefixParam == <<"p", "r", "e", "f", "i", "x">>
AmzMetaPrefix == <<"x", "-", "a", "m", "z", "-", "m", "e", "t", "a", "-">>

\* a bug that only takes the parameters written in lower case
AmzQueryHeadersCaseSensitive(query) ==
    LET names == {n \in {query[i].name : i \in 1..Len(query)} :
                    StartsWith(n, AmzPrefix)}
    IN [n \in names |->
          query[CHOOSE i \in 1..Len(query) : query[i].name = n].value]

\* pickBy(mapKeys(ctx.query, key.toLowerCase()), key.startsWith('x-amz-')):
\* of two parameters with the same lower-case name the later one stays
AmzQueryHeaders(query) ==
    LET lowered == [i \in 1..Len(query) |-> ToLowerCase(query[i].name)]
        names == {lowered[i] : i \in 1..Len(query)}
        lastOf(n) == CHOOSE i \in 1..Len(query) :
                        /\ lowered[i] = n
                        /\ \A j \in (i + 1)..Len(query) : lowered[j] # n
    IN [n \in {x \in names : StartsWith(x, AmzPrefix)} |-> query[lastOf(n)].value]

\* Object.assign(target, source)
ObjectAssign(target, source) ==
    [n \in DOMAIN target \cup DOMAIN source |->
        IF n \in DOMAIN source THEN source[n] ELSE target[n]]

\* new S3Object(bucket, key, content, ctx.headers): the user metadata kept
UserMetadata(headers) ==
    [n \in {x \in DOMAIN headers : StartsWith(x, AmzMetaPrefix)} |-> headers[n]]

NoFields == [n \in {} |-> "none"]

\* the request as the authentication model takes it: signed now, with the
\* dummy account's key id, by the signer
MergedCredentials(m) ==
    LET presigned == \E i \in 1..Len(m.query) : m.query[i].name = XAmzAlgorithm
        now == [fmt |-> "iso8601", t |-> 1000000000]
        c == [IdleActx EXCEPT
                !.phase = "received", !.website = m.website,
                !.method = m.method, !.authorization = m.authorization,
                !.xAmzDate = IF m.authorization = "v4" THEN now ELSE NoDate,
                !.qAlgorithm = presigned, !.qComplete = presigned,
                !.qDate = IF presigned THEN now ELSE NoDate,
                !.qExpires = 20, !.serverTime = 1000000000,
                !.accessKeyId = "S3RVER", !.signer = m.signer]
    IN [c EXCEPT !.signatureProvided = SignatureBy(m.signer, c)]

\* authentication(ctx, next) and the route handler behind it; a PUT stores
\* an object with the metadata of the headers
MergedAuthentication(m, opts, reg, keys) ==
    LET skipped == m.website \/ m.method = "OPTIONS"
        headers == IF skipped THEN m.headers0
                   ELSE ObjectAssign(m.headers0, AmzQueryHeaders(m.query))
        verdict == Authentication(MergedCredentials(m), opts, reg, keys)
    IN [m EXCEPT
          !.phase = "done",
          !.headers = headers,
          !.error = verdict.error,
          !.handlerRan = verdict.handlerRan,
          !.seen = IF verdict.handlerRan THEN headers ELSE NoFields,
          !.stored = verdict.handlerRan /\ m.method = "PUT",
          !.metadata = IF verdict.handlerRan /\ m.method = "PUT"
                       THEN UserMetadata(headers) ELSE NoFields]

MergedQueryNames == {XAmzMetaK, ToLowerCase(XAmzMetaK), PrefixParam, XAmzAlgorithm}
MergedQueryValues == {"value", "other"}

RECURSIVE MergedQueriesOf(_)
MergedQueriesOf(n) ==
    IF n = 0 THEN {<<>>}
    ELSE LET shorter == MergedQueriesOf(n - 1)
         IN shorter \cup
            {Append(q, [name |-> nm, value |-> v]) :
               q \in {x \in shorter : Len(x) = n - 1},
               nm \in MergedQueryNames, v \in MergedQueryValues}

\* ctx.query has every name once
MergedQueries ==
    {q \in MergedQueriesOf(MaxMergedParams) :
        \A i, j \in 1..Len(q) : i # j => q[i].name # q[j].name}

MergedHeaders ==
    {[n \in names |-> "sent"] :
        names \in SUBSET {ToLowerCase(XAmzMetaK), ContentType}}

MergedOthers ==
    <<options, vctx, actx, chunked, store, last, registry, accessKeys,
      octx, rule, bus, server, objects, listing, multipart, canon, builder>>

\* a request arrives
MergedReceive ==
    /\ merged.phase = "idle"
    /\ \E q \in MergedQueries, h \in MergedHeaders, w \in BOOLEAN,
          method \in {"GET", "PUT", "OPTIONS"},
          authorization \in {"none", "v4"}, signer \in {"S3RVER", "WRONG"} :
         merged' = [phase |-> "received", website |-> w, method |-> method,
                    authorization |-> authorization, signer |-> signer,
                    query |-> q, headers0 |-> h, headers |-> h,
                    error |-> "none", handlerRan |-> FALSE,
                    seen |-> NoFields, stored |-> FALSE, metadata |-> NoFields]
    /\ UNCHANGED MergedOthers

\* the middleware and the handler run
MergedAuthenticate ==
    /\ merged.phase = "received"
    /\ merged' = MergedAuthentication(merged, options, registry, accessKeys)
    /\ UNCHANGED MergedOthers

InitMerged ==
    /\ InitBase
    /\ octx = IdleOctx
    /\ rule = IdleRule
    /\ bus = IdleBus
    /\ server = IdleServer
    /\ objects = IdleObjects
    /\ listing = IdleListing
    /\ InitLast

NextMerged == MergedReceive \/ MergedAuthenticate

SpecMerged == InitMerged /\ [][NextMerged]_vars

(***************************************************************************)
(* The host pattern as the specification words it: the region is one label *)
(* without a dot, ^(?:(.+)\.)?s3(-website)?([-.][^.]+)?\.<endpoint>$ .     *)
(***************************************************************************)
LabelTailMatch(r, ep) ==
    \/ r = Dot \o ep
    \/ /\ TailMatch(r, ep)
       /\ \A i \in 2..(Len(r) - Len(Dot \o ep)) : r[i] # "."

LabelWebsiteMatch(r, ep) ==
    /\ StartsWith(r, S3Literal \o WebsiteLiteral)
    /\ LabelTailMatch(Drop(r, Len(S3Literal \o WebsiteLiteral)), ep)

LabelCoreMatch(r, ep) ==
    \/ LabelWebsiteMatch(r, ep)
    \/ StartsWith(r, S3Literal) /\ LabelTailMatch(Drop(r, Len(S3Literal)), ep)

LabelBucketEnds(h, ep) ==
    {i \in 1..(Len(h) - 1) : h[i + 1] = "." /\ LabelCoreMatch(Drop(h, i + 1), ep)}

LabelPatternExec(h, ep) ==
    IF LabelBucketEnds(h, ep) # {}
    THEN LET i == Max(LabelBucketEnds(h, ep))
         IN [match |-> TRUE,
             bucket |-> SubSeq(h, 1, i),
             website |-> LabelWebsiteMatch(Drop(h, i + 1), ep)]
    ELSE IF LabelCoreMatch(h, ep)
    THEN [match |-> TRUE, bucket |-> <<>>, website |-> LabelWebsiteMatch(h, ep)]
    ELSE [match |-> FALSE, bucket |-> <<>>, website |-> FALSE]

(***************************************************************************)
(* C9: a host is treated as a service-endpoint host exactly when it has    *)
(* the form [<bucket>.]s3[-website][<'-' or '.'><region>].<endpoint> with  *)
(* the region a single label without a dot; then the service is s3-website *)
(* when the -website segment is present and s3 otherwise, and the path is  *)
(* /<bucket><path> when a bucket label was captured, unchanged when not.   *)
(***************************************************************************)
C9_EndpointHostForm ==
    vctx.phase = "routed" =>
        LET m == LabelPatternExec(vctx.hostname, options.serviceEndpoint)
        IN /\ vctx.match = m.match
           /\ m.match =>
                /\ vctx.service = IF m.website THEN "s3-website" ELSE "s3"
                /\ vctx.path = IF m.bucket # <<>>
                               THEN Slash \o m.bucket \o vctx.path0
                               ELSE vctx.path0

(***************************************************************************)
(* C10: when the host does not match the service-endpoint pattern, the     *)
(* hostname is prepended to the path as the bucket if and only if vhost    *)
(* buckets are enabled and the hostname is not an IP address, not          *)
(* localhost and not the OS hostname; otherwise the path is unchanged.     *)
(***************************************************************************)
C10_HostnameAsBucket ==
    (vctx.phase = "routed" /\ ~vctx.match) =>
        LET h == vctx.hostname
            eligible == /\ options.useVhostBuckets
                        /\ ~IsIP(h)
                        /\ h # Localhost
                        /\ h # OsHostname
        IN /\ eligible => vctx.path = Slash \o h \o vctx.path0
           /\ ~eligible => vctx.path = vctx.path0

C10_Witness ==
    /\ vctx.phase = "routed"
    /\ ~vctx.match
    /\ options.useVhostBuckets
    /\ vctx.hostname = <<"b">>
    /\ vctx.path0 = Slash
    /\ vctx.path = <<"/", "b", "/">>

\* the exemptions at work: with vhost buckets enabled, an IP address and
\* localhost leave the path "/" alone
C10_ExemptReached ==
    /\ vctx.phase = "routed"
    /\ options.useVhostBuckets
    /\ vctx.hostname = Localhost
    /\ vctx.path = Slash

(***************************************************************************)
(* Words for the claims about authentication, stated on what the client    *)
(* sent and on the clock, not on what the middleware computed.             *)
(***************************************************************************)
\* the verifier runs on the request
Verified(c) == c.phase = "done" /\ ~c.website /\ c.method # "OPTIONS"

\* Signature V4 by the Authorization header alone, with all its components
HeaderV4(c) == c.authorization = "v4" /\ ~c.qAlgorithm

\* Signature V4 by a presigned query alone, with all its parameters
PresignedV4(c) == c.authorization = "none" /\ c.qAlgorithm /\ c.qComplete

\* the date a header-authenticated request is checked against: X-Amz-Date
\* (a query parameter of that name wins), or else Date
HeaderTime(c) ==
    IF c.qDate.fmt # "none" THEN c.qDate
    ELSE IF c.xAmzDate.fmt # "none" THEN c.xAmzDate
    ELSE c.date

Readable(d) == d.fmt \in {"http", "iso8601"}

SkewMs(c) ==
    IF c.serverTime >= HeaderTime(c).t
    THEN c.serverTime - HeaderTime(c).t
    ELSE HeaderTime(c).t - c.serverTime

ExpiryFails(c) ==
    \/ c.qExpires \notin 1..604800
    \/ c.qDate.t + c.qExpires * 1000 < c.serverTime

\* the request passes the time check of its mechanism
InTimeWindow(c) ==
    \/ HeaderV4(c) /\ Readable(HeaderTime(c)) /\ SkewMs(c) <= 900 * 1000
    \/ PresignedV4(c) /\ ~ExpiryFails(c)

\* the provided signature is the one the server computes: the client signed
\* this request with the secret of the declared, registered key
SignedCorrectly(c) ==
    /\ c.accessKeyId \in DOMAIN registry
    /\ c.signer = accessKeys[registry[c.accessKeyId]][c.accessKeyId]

(***************************************************************************)
(* C2: with allowMismatchedSignatures off, a V4 request inside the time    *)
(* window that names a registered key but carries another signature than   *)
(* the computed one gets SignatureDoesNotMatch (403) with StringToSign and *)
(* StringToSignBytes, the handler does not run and no account is attached; *)
(* an account is attached only when the signatures are equal.              *)
(***************************************************************************)
C2_MismatchRejected ==
    (Verified(actx) /\ ~options.allowMismatchedSignatures) =>
        /\ ( /\ InTimeWindow(actx)
             /\ actx.accessKeyId \in DOMAIN registry
             /\ ~SignedCorrectly(actx) ) =>
               /\ actx.error = "SignatureDoesNotMatch"
               /\ actx.status = 403
               /\ actx.detail.StringToSign # <<>>
               /\ actx.detail.StringToSignBytes # <<>>
               /\ ~actx.handlerRan
               /\ actx.account = "none"
        /\ actx.account # "none" => SignedCorrectly(actx)

C2_Witness ==
    /\ Verified(actx)
    /\ ~options.allowMismatchedSignatures
    /\ HeaderV4(actx)
    /\ InTimeWindow(actx)
    /\ actx.accessKeyId = "S3RVER"
    /\ actx.signer = "WRONG"
    /\ actx.error = "SignatureDoesNotMatch"

(***************************************************************************)
(* C3 as claimed: with allowMismatchedSignatures set, every well-formed V4 *)
(* request with an incorrect signature (here: one inside the time window   *)
(* of its mechanism) is accepted and handled as the account that owns the  *)
(* declared access key id.                                                 *)
(***************************************************************************)
C3_EveryWellFormedAccepted ==
    ( /\ Verified(actx)
      /\ options.allowMismatchedSignatures
      /\ InTimeWindow(actx)
      /\ ~SignedCorrectly(actx) ) =>
        /\ actx.handlerRan
        /\ actx.accessKeyId \in DOMAIN registry
        /\ actx.account = registry[actx.accessKeyId]

(***************************************************************************)
(* C3 amended: with allowMismatchedSignatures set, every well-formed V4    *)
(* request that passes the time check of its mechanism and names a         *)
(* registered access key is accepted and handled as the account owning     *)
(* that key, also when its signature is incorrect; SignatureDoesNotMatch   *)
(* is never produced while the flag is set.                                *)
(***************************************************************************)
C3_MismatchAccepted ==
    (Verified(actx) /\ options.allowMismatchedSignatures) =>
        /\ ( /\ InTimeWindow(actx)
             /\ actx.accessKeyId \in DOMAIN registry
             /\ ~SignedCorrectly(actx) ) =>
               /\ actx.error = "none"
               /\ actx.handlerRan
               /\ actx.account = registry[actx.accessKeyId]
        /\ actx.error # "SignatureDoesNotMatch"

C3_Witness ==
    /\ Verified(actx)
    /\ options.allowMismatchedSignatures
    /\ PresignedV4(actx)
    /\ InTimeWindow(actx)
    /\ actx.signer = "dummy"
    /\ actx.handlerRan
    /\ actx.account = DummyAccount

C5_V2AlwaysRejected ==
    ( /\ Verified(actx)
      /\ ~actx.qAlgorithm
      /\ \/ actx.authorization = "v2"
         \/ actx.authorization = "none" /\ actx.qV2 ) =>
        /\ actx.error = "InvalidArgument"
        /\ actx.status = 400
        /\ ~actx.handlerRan

\* the part of C5 the code keeps: the V2 Authorization header is rejected
C5_V2HeaderReached ==
    /\ Verified(actx)
    /\ actx.authorization = "v2"
    /\ ~actx.qAlgorithm
    /\ actx.error = "InvalidArgument"

(***************************************************************************)
(* C6: for a header-authenticated V4 request the time check gives          *)
(* RequestTimeTooSkewed (403) exactly when server time and X-Amz-Date (or  *)
(* Date) differ by more than 900 seconds, either way; exactly 900 seconds  *)
(* passes; a missing or unparseable date gives AccessDenied.               *)
(***************************************************************************)
C6_TimeSkew ==
    (Verified(actx) /\ HeaderV4(actx)) =>
        /\ ~Readable(HeaderTime(actx)) =>
             actx.error = "AccessDenied" /\ actx.status = 403
        /\ Readable(HeaderTime(actx)) =>
             /\ actx.error = "RequestTimeTooSkewed" <=> SkewMs(actx) > 900 * 1000
             /\ actx.error = "RequestTimeTooSkewed" => actx.status = 403
             /\ actx.error # "AccessDenied"

C6_Witness ==
    /\ Verified(actx)
    /\ HeaderV4(actx)
    /\ Readable(HeaderTime(actx))
    /\ SkewMs(actx) = 900 * 1000
    /\ actx.error = "none"
    /\ actx.handlerRan

(***************************************************************************)
(* C7: a presigned V4 request gets AccessDenied (403) whenever             *)
(* X-Amz-Expires is outside 1..604800 or X-Amz-Date + X-Amz-Expires is     *)
(* earlier than the server time, and passes the expiry check otherwise.    *)
(***************************************************************************)
C7_PresignedExpiry ==
    (Verified(actx) /\ PresignedV4(actx)) =>
        /\ ExpiryFails(actx) =>
             /\ actx.error = "AccessDenied"
             /\ actx.status = 403
             /\ ~actx.handlerRan
        /\ ~ExpiryFails(actx) =>
             /\ actx.error # "AccessDenied"
             /\ "lookup" \in {actx.steps[i] : i \in 1..Len(actx.steps)}

C7_Witness ==
    /\ Verified(actx)
    /\ PresignedV4(actx)
    /\ actx.qExpires = 20
    /\ actx.qDate.t + 20 * 1000 = actx.serverTime - 1
    /\ actx.error = "AccessDenied"

(***************************************************************************)
(* C8: a chunked upload is stored exactly when the decoded length was      *)
(* declared, every chunk before the last data chunk has at least 8192      *)
(* bytes, the chunk sizes sum to the declared length and the stream ends   *)
(* with a zero-length chunk; otherwise it ends in MissingContentLength     *)
(* (411), InvalidChunkSizeError (403) or IncompleteBody (400) with nothing *)
(* stored.  InvalidChunkSizeError names the ordinal of the chunk at which  *)
(* the violation is seen and the size of the undersized chunk before it.   *)
(***************************************************************************)
RECURSIVE SumSeq(_)
SumSeq(r) == IF r = <<>> THEN 0 ELSE r[1] + SumSeq(Tail(r))

C8_ChunkedUpload ==
    chunked.phase = "done" =>
        LET r == chunked.received
            n == Len(r)
            wellFormed ==
                /\ chunked.hasLength
                /\ n > 0
                /\ r[n] = 0
                /\ \A i \in 1..(n - 2) : r[i] >= 8192
                /\ SumSeq(r) = chunked.declared
        IN /\ chunked.stored <=> wellFormed
           /\ chunked.stored => chunked.error = "none"
           /\ ~chunked.stored =>
                \/ chunked.error = "MissingContentLength" /\ chunked.status = 411
                \/ chunked.error = "InvalidChunkSizeError" /\ chunked.status = 403
                \/ chunked.error = "IncompleteBody" /\ chunked.status = 400
           /\ ~chunked.hasLength => chunked.error = "MissingContentLength"
           /\ chunked.error = "InvalidChunkSizeError" =>
                /\ n >= 2
                /\ chunked.Chunk = n
                /\ chunked.BadChunkSize = r[n - 1]
                /\ r[n - 1] < 8192

C8_Witness ==
    /\ chunked.phase = "done"
    /\ chunked.received = <<8192, 5, 6>>
    /\ chunked.error = "InvalidChunkSizeError"
    /\ chunked.Chunk = 3
    /\ chunked.BadChunkSize = 5
    /\ ~chunked.stored

(***************************************************************************)
(* C1: deleteBucket on an existing bucket that holds at least one object   *)
(* fails with BucketNotEmpty (409) and leaves every bucket and object as   *)
(* it was; on an existing bucket that holds no object (every object put    *)
(* into it has been deleted) it succeeds and removes just that bucket.     *)
(***************************************************************************)
C1_DeleteBucketNotEmpty ==
    (last.op = "deleteBucket" /\ last.bucket \in DOMAIN last.before) =>
        LET b == last.bucket
        IN /\ DOMAIN last.before[b] # {} =>
                /\ last.result = "BucketNotEmpty"
                /\ last.status = 409
                /\ store = last.before
           /\ DOMAIN last.before[b] = {} =>
                /\ last.result = "ok"
                /\ b \notin DOMAIN store
                /\ \A c \in DOMAIN last.before \ {b} :
                     c \in DOMAIN store /\ store[c] = last.before[c]

C1_Witness ==
    /\ last.op = "deleteBucket"
    /\ last.bucket \in DOMAIN last.before
    /\ DOMAIN last.before[last.bucket] = Keys
    /\ last.result = "BucketNotEmpty"
    /\ last.bucket \in DOMAIN store

(***************************************************************************)
(* C11: every routed request that carries an x-amz-* header or query       *)
(* parameter (name compared case-insensitively) has service s3, whatever   *)
(* its host is.                                                            *)
(***************************************************************************)
C11_SdkAlwaysS3 ==
    (vctx.phase = "routed" /\ HasAmzKey(vctx.keys)) => vctx.service = "s3"

\* the part of C11 the router keeps: on a host that is no endpoint host
C11_SdkOnOtherHosts ==
    (vctx.phase = "routed" /\ HasAmzKey(vctx.keys) /\ ~vctx.match) =>
        vctx.service = "s3"

(***************************************************************************)
(* Words for the override claims.                                          *)
(***************************************************************************)
Overridden(c) == c.phase = "done" /\ c.method \in {"GET", "HEAD"}

HasResponseParam(c) == \E i \in 1..Len(c.query) : c.query[i].key.prefix = "response-"

HasUnknownResponseParam(c) ==
    \E i \in 1..Len(c.query) :
        /\ c.query[i].key.prefix = "response-"
        /\ c.query[i].key.rest \notin
             {"content-type", "content-language", "expires", "cache-control",
              "content-disposition", "content-encoding"}

\* every header a permitted response-* parameter names carries its value
OverridesApplied(c) ==
    \A i \in 1..Len(c.query) :
        c.query[i].key.prefix = "response-" =>
            c.headers[CapitalizeHeader(c.query[i].key.rest)] = c.query[i].value

(***************************************************************************)
(* C12 as claimed: a GET or HEAD request with at least one response-*      *)
(* parameter and no account gets InvalidRequest (400) and the handler does *)
(* not run; with an account the handler runs and the overrides are set.    *)
(***************************************************************************)
C12_AnonymousOverrideRejected ==
    (Overridden(octx) /\ HasResponseParam(octx)) =>
        /\ octx.account = "none" =>
             /\ octx.error = "InvalidRequest"
             /\ octx.status = 400
             /\ ~octx.handlerRan
        /\ octx.account # "none" =>
             /\ octx.handlerRan
             /\ octx.error = "none" => OverridesApplied(octx)

(***************************************************************************)
(* C12 amended: for a GET or HEAD request that is no static-website        *)
(* request and whose response-* parameters are all permitted ones, of      *)
(* which there is at least one: without an account it gets InvalidRequest  *)
(* (400), the handler does not run and no header is set; with an account   *)
(* the handler runs and, when it returns without error, every override     *)
(* value is the value of its response header, in place of the stored one,  *)
(* and the other headers are the stored object's.                          *)
(***************************************************************************)
C12_OverrideNeedsAccount ==
    ( /\ Overridden(octx)
      /\ ~octx.website
      /\ HasResponseParam(octx)
      /\ ~HasUnknownResponseParam(octx) ) =>
        /\ octx.account = "none" =>
             /\ octx.error = "InvalidRequest"
             /\ octx.status = 400
             /\ ~octx.handlerRan
             /\ octx.headers = NoHeaders
        /\ octx.account # "none" =>
             /\ octx.handlerRan
             /\ octx.error = "none" =>
                  /\ OverridesApplied(octx)
                  /\ \A h \in HeaderNames \ octx.overridden :
                       octx.headers[h] = StoredHeaders[h]
             /\ octx.error # "none" => octx.headers = NoHeaders

C12_Witness ==
    /\ Overridden(octx)
    /\ ~octx.website
    /\ octx.account = "none"
    /\ Len(octx.query) = 1
    /\ octx.query[1].key = QueryKey("response-", "content-type")
    /\ octx.error = "InvalidRequest"

\* the signed request of the test: two overrides replace or add headers
C12_SignedOverrideReached ==
    /\ Overridden(octx)
    /\ octx.account = DummyAccount
    /\ Len(octx.query) = 2
    /\ octx.headers["Content-Type"] = "image/jpeg"
    /\ octx.headers["Content-Disposition"] = "attachment"

(***************************************************************************)
(* C13 as claimed: a GET or HEAD request with a response-* parameter       *)
(* outside the permitted six gets InvalidArgument (400) carrying the name  *)
(* and value of such a parameter, the handler does not run and no response *)
(* header is overridden.                                                   *)
(***************************************************************************)
C13_UnknownOverrideRejected ==
    (Overridden(octx) /\ HasUnknownResponseParam(octx)) =>
        /\ octx.error = "InvalidArgument"
        /\ octx.status = 400
        /\ \E i \in 1..Len(octx.query) :
             /\ octx.query[i].key = octx.ArgumentName
             /\ octx.query[i].value = octx.ArgumentValue
             /\ octx.ArgumentName.prefix = "response-"
             /\ octx.ArgumentName \notin RESPONSE_HEADERS
        /\ ~octx.handlerRan
        /\ octx.overridden = {}

(***************************************************************************)
(* C13 amended: the same for a GET or HEAD request that is no              *)
(* static-website request; the parameter carried is the first such         *)
(* parameter of the query.                                                 *)
(***************************************************************************)
C13_UnknownOverrideRejectedOffWebsite ==
    (Overridden(octx) /\ ~octx.website /\ HasUnknownResponseParam(octx)) =>
        /\ octx.error = "InvalidArgument"
        /\ octx.status = 400
        /\ \E i \in 1..Len(octx.query) :
             /\ octx.query[i].key = octx.ArgumentName
             /\ octx.query[i].value = octx.ArgumentValue
             /\ octx.ArgumentName.prefix = "response-"
             /\ octx.ArgumentName \notin RESPONSE_HEADERS
             /\ \A j \in 1..(i - 1) :
                  ~(/\ octx.query[j].key.prefix = "response-"
                    /\ octx.query[j].key \notin RESPONSE_HEADERS)
        /\ ~octx.handlerRan
        /\ octx.overridden = {}
        /\ octx.headers = NoHeaders

C13_Witness ==
    /\ Overridden(octx)
    /\ ~octx.website
    /\ octx.account = DummyAccount
    /\ Len(octx.query) = 2
    /\ octx.query[1].key = QueryKey("response-", "content-type")
    /\ octx.query[2].key = QueryKey("response-", "foo")
    /\ octx.error = "InvalidArgument"
    /\ octx.ArgumentName = QueryKey("response-", "foo")

(***************************************************************************)
(* Words for the routing rule claims: a field is present when the config   *)
(* holds it, whatever its value.                                           *)
(***************************************************************************)
HasKeyPrefix(config) ==
    config.hasCondition /\ config.Condition.KeyPrefixEquals # Undefined

HasErrorCode(config) ==
    config.hasCondition /\ config.Condition.HttpErrorCodeReturnedEquals # 0

Evaluated(r) == r.phase \in {"matched", "passed", "located"}

(***************************************************************************)
(* C14: shouldRedirect(key, status) is true exactly when KeyPrefixEquals,  *)
(* if present, is a prefix of key and HttpErrorCodeReturnedEquals, if      *)
(* present, equals status; what the rule omits does not restrict it.       *)
(***************************************************************************)
C14_ShouldRedirect ==
    Evaluated(rule) =>
        ( rule.should <=>
            /\ HasKeyPrefix(rule.config) =>
                 StartsWith(rule.key, rule.config.Condition.KeyPrefixEquals)
            /\ HasErrorCode(rule.config) =>
                 rule.config.Condition.HttpErrorCodeReturnedEquals = rule.status )

\* the part of C14 the code keeps: rules without Condition, and Conditions
\* with at least one non-empty field
C14_NonEmptyConditions ==
    ( /\ Evaluated(rule)
      /\ \/ ~rule.config.hasCondition
         \/ Truthy(rule.config.Condition.KeyPrefixEquals)
         \/ HasErrorCode(rule.config) ) =>
        ( rule.should <=>
            /\ Truthy(rule.config.Condition.KeyPrefixEquals) =>
                 StartsWith(rule.key, rule.config.Condition.KeyPrefixEquals)
            /\ HasErrorCode(rule.config) =>
                 rule.config.Condition.HttpErrorCodeReturnedEquals = rule.status )

(***************************************************************************)
(* C15: for a rule that matched key K the redirect key is K with its       *)
(* leading KeyPrefixEquals replaced by ReplaceKeyPrefixWith when that is   *)
(* configured (prepended when the rule has no KeyPrefixEquals), otherwise  *)
(* ReplaceKeyWith when configured, otherwise K; the location is            *)
(* <Protocol or default>://<HostName or default>/<redirect key> and the    *)
(* status is HttpRedirectCode or 301.                                      *)
(***************************************************************************)
C15_RedirectLocation ==
    rule.phase = "located" =>
        LET redirect == rule.config.Redirect
            prefix == IF HasKeyPrefix(rule.config)
                      THEN rule.config.Condition.KeyPrefixEquals ELSE <<>>
            expected ==
                IF redirect.ReplaceKeyPrefixWith # Undefined
                THEN redirect.ReplaceKeyPrefixWith
                     \o SubSeq(rule.key, Len(prefix) + 1, Len(rule.key))
                ELSE IF redirect.ReplaceKeyWith # Undefined
                THEN redirect.ReplaceKeyWith
                ELSE rule.key
            protocol == IF redirect.Protocol # Undefined
                        THEN redirect.Protocol ELSE RuleDefaults.protocol
            hostName == IF redirect.HostName # Undefined
                        THEN redirect.HostName ELSE RuleDefaults.hostname
        IN /\ rule.redirectKey = expected
           /\ rule.location = protocol \o <<"://">> \o hostName \o <<"/">>
                                \o expected
           /\ rule.statusCode = IF redirect.HttpRedirectCode # 0
                                THEN redirect.HttpRedirectCode ELSE 301

\* the part of C15 the code keeps: replacement texts without a dollar sign
C15_PlainReplacements ==
    ( /\ rule.phase = "located"
      /\ \A i \in 1..Len(rule.config.Redirect.ReplaceKeyPrefixWith) :
           rule.config.Redirect.ReplaceKeyPrefixWith[i] # "$" ) =>
        LET redirect == rule.config.Redirect
            prefix == IF HasKeyPrefix(rule.config)
                      THEN rule.config.Condition.KeyPrefixEquals ELSE <<>>
        IN rule.redirectKey =
             IF redirect.ReplaceKeyPrefixWith # Undefined
             THEN redirect.ReplaceKeyPrefixWith
                  \o SubSeq(rule.key, Len(prefix) + 1, Len(rule.key))
             ELSE IF redirect.ReplaceKeyWith # Undefined
             THEN redirect.ReplaceKeyWith
             ELSE rule.key

(***************************************************************************)
(* C16: every object mutation publishes an envelope with exactly one       *)
(* record whose eventName is the one of that mutation, ObjectCreated:Put,  *)
(* :Post, :Copy, :CompleteMultipartUpload or ObjectRemoved:Delete; no      *)
(* empty or other eventName is published.                                  *)
(***************************************************************************)
NameOfMutation(m) ==
    IF m = "Delete" THEN "ObjectRemoved:Delete" ELSE "ObjectCreated:" \o m

C16_EventNames ==
    \A i \in 1..Len(bus.log) :
        LET e == bus.log[i]
        IN /\ Len(e.envelope.Records) = 1
           /\ e.envelope.Records[1].eventName = NameOfMutation(e.mutation)
           /\ e.envelope.Records[1].eventName \in
                {"ObjectCreated:Put", "ObjectCreated:Post", "ObjectCreated:Copy",
                 "ObjectCreated:CompleteMultipartUpload", "ObjectRemoved:Delete"}

\* the part of C16 the code keeps: the four kinds S3Event knows
C16_KnownKinds ==
    \A i \in 1..Len(bus.log) :
        LET e == bus.log[i]
        IN /\ Len(e.envelope.Records) = 1
           /\ e.mutation # "CompleteMultipartUpload" =>
                e.envelope.Records[1].eventName = NameOfMutation(e.mutation)

C17_KeptReached ==
    /\ server.phase = "closed"
    /\ server.useResetOnClose = "unset"
    /\ \E b \in DOMAIN store : DOMAIN store[b] # {}

(***************************************************************************)
(* C18: when the server listens, every configured bucket exists and every  *)
(* config of every entry has been stored, those of one entry in the order  *)
(* given, so that a bucket named by one entry holds for each type the last *)
(* config of that type; when some config is invalid the server does not    *)
(* listen, and run has rejected once the invalid config was reached.       *)
(***************************************************************************)
SomeInvalid(buckets) ==
    \E t \in 1..Len(buckets) : \E i \in 1..Len(buckets[t].configs) :
        buckets[t].configs[i].problem # "none"

PutsOf(t) == {n \in 1..Len(server.puts) : server.puts[n].task = t}

C18_ConfiguredBeforeListening ==
    /\ server.phase = "listening" =>
         /\ ~SomeInvalid(server.buckets)
         /\ \A t \in 1..Len(server.buckets) :
              LET entry == server.buckets[t]
              IN /\ entry.name \in DOMAIN store
                 /\ \A i \in 1..Len(entry.configs) :
                      \E n \in PutsOf(t) :
                          /\ server.puts[n].index = i
                          /\ server.puts[n].id = entry.configs[i].id
                          /\ server.puts[n].name = entry.name
                 /\ \A n, m \in PutsOf(t) :
                      n < m => server.puts[n].index < server.puts[m].index
                 /\ (\A u \in 1..Len(server.buckets) :
                        server.buckets[u].name = entry.name => u = t) =>
                      \A i \in 1..Len(entry.configs) :
                          (\A j \in (i + 1)..Len(entry.configs) :
                              entry.configs[j].type # entry.configs[i].type) =>
                            server.configs[entry.name][entry.configs[i].type]
                              = entry.configs[i].id
    /\ (server.phase # "idle" /\ SomeInvalid(server.buckets)) =>
         /\ server.phase \in {"configuring", "rejected"}
         /\ ~server.listened
         /\ server.failed # {} => server.phase = "rejected"
    /\ server.phase = "rejected" => server.failed # {}

C18_Witness ==
    /\ server.phase = "listening"
    /\ server.buckets =
         <<Entry("bucket-a", <<Cors1>>), Entry("bucket-b", <<Website1, Cors2>>)>>
    /\ server.configs["bucket-a"]["cors"] = "cors-test0"
    /\ server.configs["bucket-b"]["website"] = "website-test0"
    /\ server.configs["bucket-b"]["cors"] = "cors-test1"
    /\ {"bucket-a", "bucket-b"} \subseteq DOMAIN store

\* run rejected on a CORS config with two wildcards
C18_RejectedReached ==
    /\ server.phase = "rejected"
    /\ server.buckets = <<Entry("bucket-a", <<BadWildcard>>)>>
    /\ ~server.listened

(***************************************************************************)
(* C19: a put whose x-amz-storage-class is none of the eight storage       *)
(* classes fails with InvalidStorageClass (400) and leaves every stored    *)
(* object, the one under that key included, as it was; a put with one of   *)
(* the eight stores the object with that class, and a get returns the      *)
(* class the object was stored with.                                       *)
(***************************************************************************)
EightClasses ==
    {"STANDARD", "REDUCED_REDUNDANCY", "STANDARD_IA", "ONEZONE_IA",
     "INTELLIGENT_TIERING", "GLACIER", "DEEP_ARCHIVE", "OUTPOSTS"}

C19_StorageClass ==
    /\ (objects.last.op = "put" /\ objects.last.storageClass # Absent) =>
         IF objects.last.storageClass \in EightClasses
         THEN /\ objects.last.error = "none"
              /\ objects.last.key \in DOMAIN objects.stored
              /\ objects.stored[objects.last.key].metadata.storageClass
                   = objects.last.storageClass
              /\ objects.stored[objects.last.key].content = objects.last.content
         ELSE /\ objects.last.error = "InvalidStorageClass"
              /\ objects.last.status = 400
              /\ objects.stored = objects.last.before
    /\ (objects.last.op = "get" /\ objects.last.error = "none") =>
         /\ objects.last.StorageClass
              = objects.stored[objects.last.key].metadata.storageClass
         /\ objects.last.StorageClass \in EightClasses \cup {Absent}
    /\ \A k \in DOMAIN objects.stored :
         objects.stored[k].metadata.storageClass \in EightClasses \cup {Absent}

\* a put with BAD_STORAGE over an object stored as STANDARD_IA fails and the
\* object stays
C19_Witness ==
    /\ objects.last.op = "put"
    /\ objects.last.storageClass = "BAD_STORAGE"
    /\ objects.last.error = "InvalidStorageClass"
    /\ objects.last.key \in DOMAIN objects.stored
    /\ objects.stored[objects.last.key].metadata.storageClass = "STANDARD_IA"

\* the get of the test returns STANDARD_IA
C19_GetReached ==
    /\ objects.last.op = "get"
    /\ objects.last.StorageClass = "STANDARD_IA"
    /\ objects.last.Body = "Hello!"

(***************************************************************************)
(* C20: in a walk through a bucket with ListObjectsV2, each call fed the   *)
(* NextContinuationToken of the page before, the keys and the common       *)
(* prefixes come in strictly increasing order across the pages, every      *)
(* truncated page carries a NextContinuationToken, and when the walk ends  *)
(* every stored key that matches the prefix was returned exactly once as a *)
(* key or lies under exactly one returned common prefix, itself returned   *)
(* once.                                                                   *)
(***************************************************************************)
RECURSIVE Flatten(_)
Flatten(seqs) == IF seqs = <<>> THEN <<>> ELSE seqs[1] \o Flatten(Tail(seqs))

AllContents ==
    Flatten([i \in 1..Len(listing.pages) |-> listing.pages[i].Contents])

AllCommonPrefixes ==
    Flatten([i \in 1..Len(listing.pages) |-> listing.pages[i].CommonPrefixes])

Increasing(s) == \A i \in 1..(Len(s) - 1) : Less(s[i].value, s[i + 1].value)

ListedIncreasing(parts) ==
    \A i, j \in 1..Len(parts) : i < j => parts[i].PartNumber < parts[j].PartNumber

ListedUploaded(uploads, uploadId, parts) ==
    /\ uploadId \in DOMAIN uploads
    /\ \A i \in 1..Len(parts) :
         \E body \in PartBodies :
            /\ uploads[uploadId][parts[i].PartNumber] = body
            /\ parts[i].ETag = <<"md5", body>>

C21_OutOfOrderReached ==
    /\ multipart.last.op = "complete"
    /\ multipart.last.error = "InvalidPart"
    /\ Len(multipart.last.parts) = 2
    /\ multipart.last.parts[1].PartNumber > multipart.last.parts[2].PartNumber
    /\ ListedUploaded(multipart.last.uploadsBefore, multipart.last.uploadId,
                      multipart.last.parts)

(***************************************************************************)
(* C22: the canonical query string used to verify a V4 signature consists  *)
(* of every query parameter of the request other than X-Amz-Signature,     *)
(* each URL-encoded as name=value with the = present even when the value   *)
(* is empty, ordered by parameter name and then by value, and joined with  *)
(* &.                                                                      *)
(***************************************************************************)
PairBefore(p, q) ==
    \/ LessString(p.name, q.name)
    \/ p.name = q.name /\ LessString(p.value, q.value)

RECURSIVE SortPairs(_)
SortPairs(pairs) ==
    IF pairs = <<>> THEN <<>>
    ELSE LET m == CHOOSE i \in 1..Len(pairs) :
                     \A j \in 1..Len(pairs) : ~PairBefore(pairs[j], pairs[i])
         IN <<pairs[m]>>
            \o SortPairs([k \in 1..(Len(pairs) - 1) |->
                            IF k < m THEN pairs[k] ELSE pairs[k + 1]])

SpecifiedQueryString(raw) ==
    LET signed == SortPairs(SelectSeq(raw, LAMBDA p : p.name # XAmzSignature))
    IN Join([k \in 1..Len(signed) |->
               EncodeURIComponent(signed[k].name) \o <<"=">>
               \o EncodeURIComponent(signed[k].value)],
            <<"&">>)

C22_CanonicalQuery ==
    (canon.phase = "done" /\ canon.computed) =>
        canon.querystring = SpecifiedQueryString(canon.raw)

\* no name of the query is the beginning of another or given twice, and a
\* request signed in its header has no X-Amz-Signature parameter
PlainQuery(c) ==
    /\ \A i, j \in 1..Len(c.raw) :
         i # j => ~StartsWith(c.raw[i].name, c.raw[j].name)
    /\ c.authorization =>
         \A i \in 1..Len(c.raw) : c.raw[i].name # XAmzSignature

\* for such queries the code computes the specified string
C22_PlainQueries ==
    (canon.phase = "done" /\ canon.computed /\ PlainQuery(canon)) =>
        canon.querystring = SpecifiedQueryString(canon.raw)

C22_PlainReached ==
    /\ canon.phase = "done"
    /\ canon.computed
    /\ PlainQuery(canon)
    /\ Len(canon.raw) = 2
    /\ \E i \in 1..2 : canon.raw[i].name = XAmzSignature
    /\ \E i \in 1..2 : canon.raw[i].value = <<>>

(***************************************************************************)
(* C23: the canonical URI used to verify a signature is the mount path     *)
(* followed by /<bucket> or /<bucket>/<key> (the mount path followed by /  *)
(* for a service request), each path segment percent-encoded per RFC 3986  *)
(* with / preserved, whether the bucket was addressed path-style or        *)
(* vhost-style.                                                            *)
(***************************************************************************)
SpecifiedUri(c) ==
    LET path == c.mountPath \o <<"/">> \o c.bucket
                \o (IF c.key # <<>> THEN <<"/">> \o c.key ELSE <<>>)
        segments == SplitSlash(path)
    IN Join([i \in 1..Len(segments) |-> EncodeURIComponentRFC3986(segments[i])],
            <<"/">>)

C23_CanonicalUri ==
    (canon.phase = "done" /\ canon.computed) => canon.uri = SpecifiedUri(canon)

\* it is that URI for path-style requests and for servers mounted at the root
C23_PathStyleOrRoot ==
    (canon.phase = "done" /\ canon.computed
       /\ (~canon.vhost \/ canon.mountPath = <<>>)) =>
        canon.uri = SpecifiedUri(canon)

C23_PathStyleReached ==
    /\ canon.phase = "done"
    /\ canon.computed
    /\ ~canon.vhost
    /\ canon.mountPath # <<>>
    /\ canon.uri = <<"/", "b", "a", "s", "e", "/", "b", "k", "t", "/",
                     "d", "/", "a", "%", "2", "0", "%", "2", "1">>

(***************************************************************************)
(* C29: after the host router has run, the vhost flag of a request is true *)
(* if and only if the router prepended a bucket taken from the Host header *)
(* to the request path; a request whose path was not rewritten has         *)
(* vhost = false.                                                          *)
(***************************************************************************)
BucketPrepended(c) ==
    \E n \in 1..Len(c.hostname) :
        c.path = <<"/">> \o SubSeq(c.hostname, 1, n) \o c.path0

C29_VhostFlag ==
    vctx.phase = "routed" =>
        /\ vctx.vhost <=> BucketPrepended(vctx)
        /\ vctx.path = vctx.path0 => ~vctx.vhost

\* a bucket taken from in front of the service endpoint
C29_Witness ==
    /\ vctx.phase = "routed"
    /\ vctx.match
    /\ vctx.vhost
    /\ vctx.path # vctx.path0
    /\ BucketPrepended(vctx)
    /\ ~StartsWith(vctx.path, <<"/">> \o vctx.hostname)

\* a whole host name taken as the bucket, and a request left as it was
C29_HostAsBucketReached ==
    /\ vctx.phase = "routed"
    /\ ~vctx.match
    /\ vctx.vhost
    /\ vctx.path = <<"/">> \o vctx.hostname \o vctx.path0

C29_UntouchedReached ==
    /\ vctx.phase = "routed"
    /\ vctx.match
    /\ ~vctx.vhost
    /\ vctx.path = vctx.path0

(***************************************************************************)
(* C25: for a header-authenticated request the checks are applied in a     *)
(* fixed order and the first failure decides the error: unsupported        *)
(* Authorization type (InvalidArgument), malformed V4 header, missing or   *)
(* unparseable date (AccessDenied), time skew (RequestTimeTooSkewed),      *)
(* unknown access key (InvalidAccessKeyId), signature mismatch             *)
(* (SignatureDoesNotMatch).  A skewed request gets RequestTimeTooSkewed    *)
(* even when its signature is wrong or its access key is unknown.          *)
(***************************************************************************)
HeaderAuthenticated(c) == c.authorization # "none" /\ ~c.qAlgorithm

FirstFailure(c) ==
    IF c.authorization \notin {"v4", "v4malformed"} THEN "InvalidArgument"
    ELSE IF c.authorization = "v4malformed" THEN "AuthorizationHeaderMalformed"
    ELSE IF ~Readable(HeaderTime(c)) THEN "AccessDenied"
    ELSE IF SkewMs(c) > 900 * 1000 THEN "RequestTimeTooSkewed"
    ELSE IF c.accessKeyId \notin DOMAIN registry THEN "InvalidAccessKeyId"
    ELSE IF ~SignedCorrectly(c) /\ ~options.allowMismatchedSignatures
    THEN "SignatureDoesNotMatch"
    ELSE "none"

C25_CheckOrder ==
    (Verified(actx) /\ HeaderAuthenticated(actx)) =>
        /\ actx.error = FirstFailure(actx)
        /\ actx.handlerRan <=> FirstFailure(actx) = "none"

\* skewed, unknown key and a wrong signature at once
C25_Witness ==
    /\ Verified(actx)
    /\ HeaderV4(actx)
    /\ Readable(HeaderTime(actx))
    /\ SkewMs(actx) > 900 * 1000
    /\ actx.accessKeyId \notin DOMAIN registry
    /\ actx.signer = "WRONG"
    /\ actx.error = "RequestTimeTooSkewed"
    /\ ~actx.handlerRan

\* an unsupported type on a request without any date
C25_UnsupportedReached ==
    /\ Verified(actx)
    /\ HeaderAuthenticated(actx)
    /\ actx.authorization = "v2"
    /\ ~Readable(HeaderTime(actx))
    /\ actx.error = "InvalidArgument"

(***************************************************************************)
(* C26: a V4 request whose access key id is not in the account registry is *)
(* rejected with InvalidAccessKeyId and never reaches the route handler,   *)
(* also when allowMismatchedSignatures is set; the flag never attaches an  *)
(* account to a request that names an unregistered key.                    *)
(***************************************************************************)
C26_UnknownKeyRejected ==
    (Verified(actx) /\ (HeaderV4(actx) \/ PresignedV4(actx))
       /\ actx.accessKeyId \notin DOMAIN registry) =>
        /\ actx.error = "InvalidAccessKeyId"
        /\ ~actx.handlerRan
        /\ actx.account = "none"

\* the same for the requests that pass the time check of their mechanism;
\* every such request with an unregistered key is kept from the handler
C26_UnknownKeyInTimeWindow ==
    (Verified(actx) /\ (HeaderV4(actx) \/ PresignedV4(actx))
       /\ actx.accessKeyId \notin DOMAIN registry) =>
        /\ InTimeWindow(actx) => actx.error = "InvalidAccessKeyId"
        /\ actx.error # "none"
        /\ ~actx.handlerRan
        /\ actx.account = "none"

C26_Witness ==
    /\ Verified(actx)
    /\ PresignedV4(actx)
    /\ InTimeWindow(actx)
    /\ actx.accessKeyId \notin DOMAIN registry
    /\ options.allowMismatchedSignatures
    /\ actx.error = "InvalidAccessKeyId"
    /\ ~actx.handlerRan

C27_WebsiteReached ==
    /\ actx.phase = "done"
    /\ actx.website
    /\ actx.method = "GET"
    /\ actx.authorization = "v4"
    /\ actx.signer = "WRONG"
    /\ actx.handlerRan
    /\ actx.account = "none"

(***************************************************************************)
(* C30: after any sequence of createKeyPair and revokeAccessKey calls on   *)
(* any accounts, an access key id resolves in the registry to an account   *)
(* if and only if that account holds the key in its accessKeys, and no two *)
(* accounts hold the same access key id.                                   *)
(***************************************************************************)
Holds(a, accessKeyId) == accessKeyId \in DOMAIN accessKeys[a]

ResolvesTo(accessKeyId, a) ==
    accessKeyId \in DOMAIN registry /\ registry[accessKeyId] = a

C30_RegistryMatchesAccounts ==
    /\ \A a \in DOMAIN accessKeys, k \in KeyPairIds :
         ResolvesTo(k, a) <=> Holds(a, k)
    /\ \A a, b \in DOMAIN accessKeys, k \in KeyPairIds :
         (Holds(a, k) /\ Holds(b, k)) => a = b

\* the half that the code keeps: a key resolves only to an account holding it
C30_ResolvesToHolder ==
    \A a \in DOMAIN accessKeys, k \in KeyPairIds :
        ResolvesTo(k, a) => Holds(a, k)

\* the dummy account holds S3RVER, which no longer resolves
C30_OrphanedKeyReached ==
    /\ "S3RVER" \notin DOMAIN registry
    /\ Holds(DummyAccount, "S3RVER")
    /\ "Tester" \in DOMAIN accessKeys
    /\ ~Holds("Tester", "S3RVER")

(***************************************************************************)
(* C28: options set through a builder chain started from DefaultBuilder    *)
(* affect only the server built from that chain: after any earlier chains  *)
(* and builds, a build from DefaultBuilder that does not set an option     *)
(* gets that option's default value, so a server built without             *)
(* useResetOnClose never resets its store on close.                        *)
(***************************************************************************)
C28_ChainsAreIndependent ==
    builder.built =>
        /\ \A o \in BuilderOptions :
             builder.serverChain[o] = "(not set)" =>
                 builder.serverOptions[o] = DefaultProps[o]
        /\ (builder.closed /\ builder.serverChain["useResetOnClose"] = "(not set)")
             => ~builder.reset

\* what a chain sets is what its server gets, and the first build from
\* DefaultBuilder gets the defaults
C28_ChainOptionsApply ==
    builder.built =>
        \A o \in BuilderOptions :
            builder.serverChain[o] # "(not set)" =>
                builder.serverOptions[o] = builder.serverChain[o]

\* a server built without useResetOnClose after a chain that set it to true
C28_LeakReached ==
    /\ builder.built
    /\ builder.closed
    /\ builder.serverChain = NotSet
    /\ builder.serverOptions["useResetOnClose"] = "true"
    /\ builder.reset

(***************************************************************************)
(* C24: for every non-OPTIONS, non-website request, each x-amz-* query     *)
(* parameter (name lowercased) replaces the request header of the same     *)
(* name before authentication and before the route handler runs, so the    *)
(* handler sees the query value; x-amz-meta-* values given only in a       *)
(* presigned URL's query are stored as the object's metadata.              *)
(***************************************************************************)
LowerNameOf(p) == ToLowerCase(p.name)

\* an x-amz-* parameter whose lower-case name no other parameter has
AmzParam(m, i) ==
    /\ StartsWith(LowerNameOf(m.query[i]), <<"x", "-", "a", "m", "z", "-">>)
    /\ \A j \in 1..Len(m.query) :
         j # i => LowerNameOf(m.query[j]) # LowerNameOf(m.query[i])

C24_QueryOverHeaders ==
    (merged.phase = "done" /\ ~merged.website /\ merged.method # "OPTIONS") =>
        \A i \in 1..Len(merged.query) :
            AmzParam(merged, i) =>
                /\ LowerNameOf(merged.query[i]) \in DOMAIN merged.headers
                /\ merged.headers[LowerNameOf(merged.query[i])]
                     = merged.query[i].value
                /\ merged.handlerRan =>
                     merged.seen[LowerNameOf(merged.query[i])]
                         = merged.query[i].value
                /\ (merged.stored
                      /\ StartsWith(LowerNameOf(merged.query[i]),
                                    <<"x", "-", "a", "m", "z", "-",
                                      "m", "e", "t", "a", "-">>)) =>
                     merged.metadata[LowerNameOf(merged.query[i])]
                         = merged.query[i].value

\* a presigned PUT whose metadata is only in the query, in mixed case
C24_Witness ==
    /\ merged.phase = "done"
    /\ ~merged.website
    /\ merged.method = "PUT"
    /\ merged.authorization = "none"
    /\ merged.signer = "S3RVER"
    /\ merged.headers0 = NoFields
    /\ \E i \in 1..Len(merged.query) : merged.query[i].name = XAmzAlgorithm
    /\ \E i \in 1..Len(merged.query) :
         /\ merged.query[i].name = XAmzMetaK
         /\ merged.query[i].value = "value"
    /\ merged.stored
    /\ merged.metadata = [n \in {ToLowerCase(XAmzMetaK)} |-> "value"]

\* a header of the request replaced by the query's value before a rejection
C24_ReplacedReached ==
    /\ merged.phase = "done"
    /\ ~merged.website
    /\ merged.method = "PUT"
    /\ merged.authorization = "v4"
    /\ merged.signer = "WRONG"
    /\ ToLowerCase(XAmzMetaK) \in DOMAIN merged.headers0
    /\ merged.headers0[ToLowerCase(XAmzMetaK)] = "sent"
    /\ merged.headers[ToLowerCase(XAmzMetaK)] = "other"
    /\ ~merged.handlerRan

====
